---- MODULE Spec2Model ----
(***************************************************************************)
(* A model of soprano's AtomsProperty dispatch (properties/atomsproperty.py)*)
(* and of the EFG properties built on it (properties/nmr/efg.py).           *)
(*                                                                         *)
(* A structure (ase.Atoms) is its mapping of named arrays; a name is in    *)
(* the mapping's DOMAIN exactly when s.has(name).  Every call threads a    *)
(* trace of the structure: its arrays, the names read and written, the     *)
(* number of diagonalisations (np.linalg.eigh sweeps) and of extract       *)
(* entries.                                                                *)
(***************************************************************************)
EXTENDS Integers, Sequences, FiniteSets, TLC

VARIABLES atoms, last

vars == <<atoms, last>>

----------------------------------------------------------------------------
(* Bounds of the model *)

\* longest collection / trajectory handed to a call
MaxFrames == 2

----------------------------------------------------------------------------
(* Small helpers *)

Abs(x) == IF x < 0 THEN -x ELSE x

RECURSIVE GCD(_, _)
GCD(a, b) == IF b = 0 THEN a ELSE GCD(b, a % b)

\* a rational n/d in lowest terms with d > 0, as <<n, d>>
Rat(n, d) ==
  IF n = 0 THEN <<0, 1>>
  ELSE LET g == GCD(Abs(n), Abs(d))
           s == IF d < 0 THEN -1 ELSE 1
       IN <<(s * n) \div g, (s * d) \div g>>

RInt(n) == <<n, 1>>
RAdd(x, y) == Rat(x[1] * y[2] + y[1] * x[2], x[2] * y[2])
RDivInt(x, k) == Rat(x[1], x[2] * k)
RMulInt(x, k) == Rat(x[1] * k, x[2])
RDiv(x, y) == Rat(x[1] * y[2], x[2] * y[1])

\* A floating-point number is modelled exactly, as a formal sum
\*     SUM over b in DOMAIN x of  x[b] * b
\* with rational coefficients x[b] # 0 over symbolic basis numbers b.  The
\* basis number Root(e) stands for sqrt(1 + e^2/3); Root(0) is the number 1.
Root(e) == [kind |-> "sqrt(1+eta^2/3)", arg |-> e]
Unit == Root(<<0, 1>>)
Zero == [b \in {} |-> <<0, 1>>]
Coef(x, b) == IF b \in DOMAIN x THEN x[b] ELSE <<0, 1>>
Term(r, b) == IF r[1] = 0 THEN Zero ELSE [c \in {b} |-> r]
Num(r) == Term(r, Unit)
NAdd(x, y) ==
  LET B == {b \in DOMAIN x \cup DOMAIN y : RAdd(Coef(x, b), Coef(y, b))[1] # 0}
  IN [b \in B |-> RAdd(Coef(x, b), Coef(y, b))]
NDivInt(x, k) == [b \in DOMAIN x |-> RDivInt(x[b], k)]

RECURSIVE MinOf(_)
MinOf(S) ==
  LET x == CHOOSE y \in S : TRUE
  IN IF S = {x} THEN x
     ELSE LET m == MinOf(S \ {x}) IN IF x < m THEN x ELSE m

\* sequences over S of length 0..n
SeqsUpTo(S, n) == UNION {[1..k -> S] : k \in 0..n}

----------------------------------------------------------------------------
(* The structures of the model and their raw data *)

\* two structures, as loaded from two .magres files
Structs == {"s1", "s2"}

\* s.get_chemical_symbols()
ChemicalSymbols(s) == IF s = "s1" THEN <<"H", "N">> ELSE <<"B">>

\* A raw 3x3 tensor [[a, p, 0], [q, a, 0], [0, 0, c]] with p + q even: its
\* symmetric part has the eigenvalues a - |h|, a + |h|, c for h = (p + q)/2.
Tensor(a, p, q, c) == [a |-> a, p |-> p, q |-> q, c |-> c]

\* the 'efg' array of structure s in data set v (1: as loaded from the file,
\* 2: a replacement written by the caller)
EfgData(s, v) ==
  IF s = "s1"
  THEN IF v = 1 THEN <<Tensor(1, 3, 1, -2), Tensor(-1, 1, 1, 2)>>
                ELSE <<Tensor(2, 4, 2, 6), Tensor(0, 0, 0, 0)>>
  ELSE IF v = 1 THEN <<Tensor(1, 0, 0, -2)>>
                ELSE <<Tensor(2, 1, 1, -4)>>

\* array names
EFG == "efg"
EVALS == "efg_diagonal_evals"
HSORT == "efg_diagonal_evals_hsort"
EVECS == "efg_diagonal_evecs"
CacheNames == {EVALS, HSORT, EVECS}

NoArrays == [n \in {} |-> <<>>]

\* s.has(name)
Has(arrays, name) == name \in DOMAIN arrays

\* s.set_array(name, a): the other arrays are kept
SetArray(arrays, name, a) ==
  [n \in DOMAIN arrays \cup {name} |-> IF n = name THEN a ELSE arrays[n]]

\* del s.arrays[name]
DelArray(arrays, name) == [n \in DOMAIN arrays \ {name} |-> arrays[n]]

----------------------------------------------------------------------------
(* Diagonalisation and ordering of one tensor *)

\* the permutation of 1..3 that sorts the keys k ascending, equal keys kept
\* in their original order
ArgSort3(k) ==
  LET a == IF k[2] < k[1] THEN <<2, 1>> ELSE <<1, 2>>
  IN IF k[3] < k[a[1]] THEN <<3, a[1], a[2]>>
     ELSE IF k[3] < k[a[2]] THEN <<a[1], 3, a[2]>>
     ELSE <<a[1], a[2], 3>>

\* np.linalg.eigh((efg + efg.T) / 2.0): eigenvalues ascending, and the
\* (unnormalised) eigenvectors in the same order
Pick3(v, p) == <<v[p[1]], v[p[2]], v[p[3]]>>

EighOf(vals, vecs) ==
  [evals |-> Pick3(vals, ArgSort3(vals)), evecs |-> Pick3(vecs, ArgSort3(vals))]

EigenVectors(h) ==
  IF h = 0 THEN <<(<<1, 0, 0>>), <<0, 1, 0>>, <<0, 0, 1>>>>
  ELSE IF h > 0 THEN <<(<<1, -1, 0>>), <<1, 1, 0>>, <<0, 0, 1>>>>
  ELSE <<(<<1, 1, 0>>), <<1, -1, 0>>, <<0, 0, 1>>>>

EigenValues(t, h) == <<t.a - Abs(h), t.a + Abs(h), t.c>>

Eigh(t) ==
  EighOf(EigenValues(t, (t.p + t.q) \div 2), EigenVectors((t.p + t.q) \div 2))

\* _haeb_sort of one eigenvalue triple: (xx, yy, zz) with
\* |zz - iso| >= |xx - iso| >= |yy - iso|, iso the mean of the three
HaebSort(ev) ==
  Pick3(ev, Pick3(ArgSort3([i \in 1..3 |->
                              Abs(3 * ev[i] - (ev[1] + ev[2] + ev[3]))]),
                  <<2, 1, 3>>))

----------------------------------------------------------------------------
(* The property classes: default_name and default_params *)

ScalarCached == {"EFGVzz", "EFGAnisotropy", "EFGReducedAnisotropy",
                 "EFGAsymmetry", "EFGSpan", "EFGSkew"}
IsotopeCached == {"EFGQuadrupolarConstant", "EFGNQR", "EFGQuadrupolarProduct"}
Cached == ScalarCached \cup IsotopeCached
Classes == Cached \cup {"EFGTensor", "EFGDiagonal", "EFGEuler", "EFGQuaternion"}

ORDER_NQR == "n"
ORDER_HAEBERLEN == "h"

\* isotopes = {} and isotope_list = None
NoIsotopes == [e \in {} |-> 0]
NoIsotopeList == [given |-> FALSE, list |-> <<>>]

IsotopeDefaults ==
  [use_q_isotopes |-> FALSE, isotopes |-> NoIsotopes, isotope_list |-> NoIsotopeList]

DefaultName(cls) ==
  CASE cls = "EFGTensor" -> "efg_tensors"
    [] cls = "EFGDiagonal" -> "efg_diagonal"
    [] cls = "EFGVzz" -> "efg_vzz"
    [] cls = "EFGAnisotropy" -> "efg_anisotropy"
    [] cls = "EFGReducedAnisotropy" -> "efg_red_anisotropy"
    [] cls = "EFGAsymmetry" -> "efg_asymmetry"
    [] cls = "EFGSpan" -> "efg_span"
    [] cls = "EFGSkew" -> "efg_skew"
    [] cls = "EFGQuadrupolarConstant" -> "efg_qconst"
    [] cls = "EFGNQR" -> "efg_nqr"
    [] cls = "EFGQuadrupolarProduct" -> "efg_qprod"
    [] cls = "EFGEuler" -> "efg_eulers"
    [] cls = "EFGQuaternion" -> "efg_quats"

DefaultParams(cls) ==
  CASE cls = "EFGTensor" -> [order |-> ORDER_NQR] @@ IsotopeDefaults
    [] cls = "EFGDiagonal" -> [save_array |-> TRUE]
    [] cls \in ScalarCached -> [force_recalc |-> FALSE]
    [] cls \in IsotopeCached -> [force_recalc |-> FALSE] @@ IsotopeDefaults
    [] cls = "EFGEuler" ->
         [order |-> ORDER_NQR, convention |-> "zyz", passive |-> FALSE]
    [] cls = "EFGQuaternion" -> [order |-> ORDER_NQR]

\* the parameters of the class's extract, after s: here the keys of its
\* default_params
Signature(cls) == DOMAIN DefaultParams(cls)

\* dict(d); d.update(kw)
Updated(d, kw) ==
  [k \in DOMAIN d \cup DOMAIN kw |-> IF k \in DOMAIN kw THEN kw[k] ELSE d[k]]

----------------------------------------------------------------------------
(* A call's trace of one structure, and what a call returns *)

Trace(id, arrays) ==
  [id |-> id, arrays |-> arrays, reads |-> {}, writes |-> {}, ndiag |-> 0,
   nextract |-> 0, nwarn |-> 0]

\* s.get_array(name) is tr.arrays[name]; the read is recorded
Read(tr, name) == [tr EXCEPT !.reads = @ \cup {name}]

Write(tr, name, a) ==
  [tr EXCEPT !.arrays = SetArray(@, name, a), !.writes = @ \cup {name}]

Entered(tr) == [tr EXCEPT !.nextract = @ + 1]

Ok(value, tr) == [status |-> "ok", value |-> value, tr |-> tr]
Raise(error, tr) == [status |-> error, value |-> <<>>, tr |-> tr]

\* the Python values returned: a list, or a numpy array of floats or objects
\* (ndim 1: items are numbers; ndim 2: items are rows of numbers)
List(items) == [type |-> "list", dtype |-> "object", ndim |-> 1, items |-> items]
NdArray(items) == [type |-> "ndarray", dtype |-> "float", ndim |-> 1, items |-> items]
NdArray2(items) == [type |-> "ndarray", dtype |-> "float", ndim |-> 2, items |-> items]
ObjArray(items) == [type |-> "ndarray", dtype |-> "object", ndim |-> 1, items |-> items]
None == [type |-> "NoneType", dtype |-> "object", ndim |-> 0, items |-> <<>>]

\* hasattr(x, 'data'): the attributes of an object are its record fields
HasData(x) == "data" \in DOMAIN x

----------------------------------------------------------------------------
(* Isotopes (soprano.data.nmr): I as 2I, Q in units of 0.01 mb *)

DefaultIsotope(elem) ==
  CASE elem = "H" -> 1 [] elem = "N" -> 14 [] elem = "B" -> 11

QuadrupoleIsotope(elem) ==
  CASE elem = "H" -> 2 [] elem = "N" -> 14 [] elem = "B" -> 11

IsotopeData(iso, elem) ==
  CASE elem = "H" /\ iso = 1 -> [I2 |-> 1, Q |-> 0]
    [] elem = "H" /\ iso = 2 -> [I2 |-> 2, Q |-> 286]
    [] elem = "N" /\ iso = 14 -> [I2 |-> 2, Q |-> 2044]
    [] elem = "N" /\ iso = 15 -> [I2 |-> 1, Q |-> 0]
    [] elem = "B" /\ iso = 11 -> [I2 |-> 3, Q |-> 4059]
    [] elem = "B" /\ iso = 10 -> [I2 |-> 6, Q |-> 8459]

\* _get_isotope_list: per atom, the isotope_list entry when not None (0),
\* else the element's entry of isotopes, else the quadrupole-active isotope
\* when use_q_isotopes, else the default isotope
GetIsotopeList(elems, isotopes, isotope_list, use_q_isotopes) ==
  [i \in 1..Len(elems) |->
     IF isotope_list.given /\ isotope_list.list[i] # 0 THEN isotope_list.list[i]
     ELSE IF elems[i] \in DOMAIN isotopes THEN isotopes[elems[i]]
     ELSE IF use_q_isotopes THEN QuadrupoleIsotope(elems[i])
     ELSE DefaultIsotope(elems[i])]

\* _get_isotope_data(elems, key, ...)
GetIsotopeData(elems, isotopes, isotope_list, use_q_isotopes) ==
  LET l == GetIsotopeList(elems, isotopes, isotope_list, use_q_isotopes)
  IN [i \in 1..Len(elems) |-> IsotopeData(l[i], elems[i])]

\* only a list that is too short ignored
ValidIsotopeList_ShortOnly(isotope_list, elems) ==
  IF isotope_list.given /\ Len(isotope_list.list) < Len(elems)
  THEN NoIsotopeList ELSE isotope_list

\* "Is isotope list valid?": a list of the wrong length is ignored
ValidIsotopeList(isotope_list, elems) ==
  IF isotope_list.given /\ Len(isotope_list.list) # Len(elems)
  THEN NoIsotopeList ELSE isotope_list

----------------------------------------------------------------------------
(* Derived scalars of a Haeberlen-sorted triple h = (xx, yy, zz)
   (soprano.nmr.utils) *)

Max3(v) == CHOOSE x \in {v[1], v[2], v[3]} : \A y \in {v[1], v[2], v[3]} : y <= x
Min3(v) == CHOOSE x \in {v[1], v[2], v[3]} : \A y \in {v[1], v[2], v[3]} : x <= y
Mid3(v) == v[ArgSort3(v)[2]]
Sum3(v) == v[1] + v[2] + v[3]

\* zz - iso
Anisotropy(h) == Rat(3 * h[3] - Sum3(h), 3)
ReducedAnisotropy(h) == Rat(2 * (3 * h[3] - Sum3(h)), 9)
\* (yy - xx) / (zz - iso), 0 when the denominator is 0
Asymmetry(h) ==
  IF 3 * h[3] - Sum3(h) = 0 THEN <<0, 1>>
  ELSE Rat(3 * (h[2] - h[1]), 3 * h[3] - Sum3(h))
Span(h) == RInt(Max3(h) - Min3(h))
\* 3 (iso - mid) / span, 0 when the span is 0
Skew(h) ==
  IF Max3(h) = Min3(h) THEN <<0, 1>>
  ELSE Rat(Sum3(h) - 3 * Mid3(h), Max3(h) - Min3(h))

\* the skew returned for the asymmetry
ScalarOf_SkewForAsymmetry(cls, h) ==
  CASE cls = "EFGVzz" -> RInt(h[3])
    [] cls = "EFGAnisotropy" -> Anisotropy(h)
    [] cls = "EFGReducedAnisotropy" -> ReducedAnisotropy(h)
    [] cls = "EFGAsymmetry" -> Skew(h)
    [] cls = "EFGSpan" -> Span(h)
    [] cls = "EFGSkew" -> Skew(h)

\* Vzz taken from the first column
ScalarOf_FirstColumn(cls, h) ==
  CASE cls = "EFGVzz" -> RInt(h[1])
    [] cls = "EFGAnisotropy" -> Anisotropy(h)
    [] cls = "EFGReducedAnisotropy" -> ReducedAnisotropy(h)
    [] cls = "EFGAsymmetry" -> Asymmetry(h)
    [] cls = "EFGSpan" -> Span(h)
    [] cls = "EFGSkew" -> Skew(h)

ScalarOf(cls, h) ==
  CASE cls = "EFGVzz" -> RInt(h[3])
    [] cls = "EFGAnisotropy" -> Anisotropy(h)
    [] cls = "EFGReducedAnisotropy" -> ReducedAnisotropy(h)
    [] cls = "EFGAsymmetry" -> Asymmetry(h)
    [] cls = "EFGSpan" -> Span(h)
    [] cls = "EFGSkew" -> Skew(h)

----------------------------------------------------------------------------
(* extract of each class, and the class-level get on one structure.        *)
(* An operator named ...From continues the code after the call whose       *)
(* result it is given.                                                     *)

NoKw == [k \in {} |-> FALSE]

\* extract without the decorator: the missing array shows at the first
\* s.get_array('efg')
HasEfgCheck_Undecorated(cls, tr, params) ==
  IF DOMAIN params # Signature(cls) THEN "TypeError"
  ELSE IF ~Has(tr.arrays, EFG) THEN "KeyError"
  ELSE "ok"

\* _has_efg_check, and the binding of **params to the parameters of extract
HasEfgCheck(cls, tr, params) ==
  IF ~Has(tr.arrays, EFG) THEN "RuntimeError"
  ELSE IF DOMAIN params # Signature(cls) THEN "TypeError"
  ELSE "ok"

\* the ascending eigenvalues saved as the Haeberlen-sorted ones
SaveDiagonal_Unsorted(tr, efg_diag) ==
  Write(Write(Write(tr, EVALS, [i \in 1..Len(efg_diag) |-> efg_diag[i].evals]),
              HSORT, [i \in 1..Len(efg_diag) |-> efg_diag[i].evals]),
        EVECS, [i \in 1..Len(efg_diag) |-> efg_diag[i].evecs])

\* the three arrays EFGDiagonal saves
SaveDiagonal(tr, efg_diag) ==
  Write(Write(Write(tr, EVALS, [i \in 1..Len(efg_diag) |-> efg_diag[i].evals]),
              HSORT, [i \in 1..Len(efg_diag) |-> HaebSort(efg_diag[i].evals)]),
        EVECS, [i \in 1..Len(efg_diag) |-> efg_diag[i].evecs])

DiagonalFrom(tr, efg_diag, save_array) ==
  Ok(ObjArray(efg_diag), IF save_array THEN SaveDiagonal(tr, efg_diag) ELSE tr)

\* EFGDiagonal.extract: one sweep of np.linalg.eigh over the 'efg' array; the
\* three arrays are saved when save_array
ExtractDiagonal(tr, params) ==
  DiagonalFrom([Read(tr, EFG) EXCEPT !.ndiag = @ + 1],
               [i \in 1..Len(tr.arrays[EFG]) |-> Eigh(tr.arrays[EFG][i])],
               params.save_array)

\* EFGDiagonal.get(s) on one structure
GetDiagonal(tr, params) ==
  IF HasEfgCheck("EFGDiagonal", tr, params) # "ok"
  THEN Raise(HasEfgCheck("EFGDiagonal", tr, params), tr)
  ELSE ExtractDiagonal(tr, params)

\* the cache test without force_recalc
Diagonalised_NoForce(tr, force_recalc) ==
  IF ~Has(tr.arrays, HSORT)
  THEN GetDiagonal(Entered(tr), DefaultParams("EFGDiagonal"))
  ELSE Ok(<<>>, tr)

\* "if not s.has(..._evals_hsort) or force_recalc: EFGDiagonal.get(s)"
Diagonalised(tr, force_recalc) ==
  IF ~Has(tr.arrays, HSORT) \/ force_recalc
  THEN GetDiagonal(Entered(tr), DefaultParams("EFGDiagonal"))
  ELSE Ok(<<>>, tr)

ScalarFrom(cls, d) ==
  IF d.status # "ok" THEN d
  ELSE Ok(NdArray([i \in 1..Len(d.tr.arrays[HSORT]) |->
                     Num(ScalarOf(cls, d.tr.arrays[HSORT][i]))]),
          Read(d.tr, HSORT))

\* an extract that diagonalises on every call
ExtractScalar_AlwaysDiagonalise(cls, tr, params) ==
  ScalarFrom(cls, Diagonalised(tr, TRUE))

\* extract of EFGVzz, EFGAnisotropy, EFGReducedAnisotropy, EFGAsymmetry,
\* EFGSpan and EFGSkew
ExtractScalar(cls, tr, params) ==
  ScalarFrom(cls, Diagonalised(tr, params.force_recalc))

\* cls.get(s) on one structure, cls one of the six scalar classes
GetScalar(cls, tr, params) ==
  IF HasEfgCheck(cls, tr, params) # "ok"
  THEN Raise(HasEfgCheck(cls, tr, params), tr)
  ELSE ExtractScalar(cls, tr, params)

\* the species labels f"{iso}{elem}"
Species(isotopelist, elems) ==
  [i \in 1..Len(elems) |-> ToString(isotopelist[i]) \o elems[i]]

TensorFrom(tr, species, order) ==
  Ok(List([i \in 1..Len(tr.arrays[EFG]) |->
             [data |-> tr.arrays[EFG][i], species |-> species[i],
              order |-> order]]),
     Read(tr, EFG))

\* print("WARNING - invalid isotope_list, ignoring")
Warned(tr, params) ==
  IF /\ params.isotope_list.given
     /\ Len(params.isotope_list.list) # Len(ChemicalSymbols(tr.id))
  THEN [tr EXCEPT !.nwarn = @ + 1] ELSE tr

\* the element overrides not handed on to _get_isotope_list
ExtractTensor_NoOverride(tr, params) ==
  TensorFrom(Warned(tr, params),
             Species(GetIsotopeList(ChemicalSymbols(tr.id), NoIsotopes,
                                    ValidIsotopeList(params.isotope_list,
                                                     ChemicalSymbols(tr.id)),
                                    params.use_q_isotopes),
                     ChemicalSymbols(tr.id)),
             params.order)

\* EFGTensor.extract
ExtractTensor(tr, params) ==
  TensorFrom(Warned(tr, params),
             Species(GetIsotopeList(ChemicalSymbols(tr.id), params.isotopes,
                                    ValidIsotopeList(params.isotope_list,
                                                     ChemicalSymbols(tr.id)),
                                    params.use_q_isotopes),
                     ChemicalSymbols(tr.id)),
             params.order)

\* EFGTensor.get(s, order=order) on one structure
GetTensor(tr, params) ==
  IF HasEfgCheck("EFGTensor", tr, params) # "ok"
  THEN Raise(HasEfgCheck("EFGTensor", tr, params), tr)
  ELSE ExtractTensor(tr, params)

\* the Q and I columns of the atoms, as extract of the three isotope-aware
\* cached classes builds them
IsotopeColumns(tr, params) ==
  GetIsotopeData(ChemicalSymbols(tr.id), params.isotopes,
                 ValidIsotopeList(params.isotope_list, ChemicalSymbols(tr.id)),
                 params.use_q_isotopes)

\* the rational value of a plain number
Plain(x) == Coef(x, Unit)

\* EFGVzz.get(s) and EFGAsymmetry.get(s) inside another extract
VzzGet(tr) == GetScalar("EFGVzz", Entered(tr), DefaultParams("EFGVzz"))
AsymmetryGet(tr) ==
  GetScalar("EFGAsymmetry", Entered(tr), DefaultParams("EFGAsymmetry"))

\* the product without q_list
QuadrupolarConstantFrom_NoQ(iso, vzz) ==
  IF vzz.status # "ok" THEN vzz
  ELSE Ok(NdArray([i \in 1..Len(iso) |-> vzz.value.items[i]]), vzz.tr)

QuadrupolarConstantFrom(iso, vzz) ==
  IF vzz.status # "ok" THEN vzz
  ELSE Ok(NdArray([i \in 1..Len(iso) |->
                     Num(RMulInt(Plain(vzz.value.items[i]), iso[i].Q))]),
          vzz.tr)

QuadrupolarConstantAfter(iso, d) ==
  IF d.status # "ok" THEN d ELSE QuadrupolarConstantFrom(iso, VzzGet(d.tr))

\* EFGQuadrupolarConstant.extract: EFG_TO_CHI * q_list * EFGVzz.get(s), in
\* units of EFG_TO_CHI
ExtractQuadrupolarConstant(tr, params) ==
  QuadrupolarConstantAfter(IsotopeColumns(tr, params),
                           Diagonalised(Warned(tr, params), params.force_recalc))

\* str(m) of the float m = m2 / 2
FloatStr(m2) == ToString(m2 \div 2) \o (IF m2 % 2 = 0 THEN ".0" ELSE ".5")

\* the key f'm={m}->{m+1}'
TransitionKey(m2) == "m=" \o FloatStr(m2) \o "->" \o FloatStr(m2 + 2)

\* _frange(-I, I + 1, 1), as values of 2m
FRange(I2) == {m2 \in (-I2)..(I2 + 1) : (m2 + I2) % 2 = 0}

\* ms[:-1] of an ascending list ms
DropLast(ms) ==
  IF ms = {} THEN {} ELSE ms \ {CHOOSE x \in ms : \A y \in ms : y <= x}

\* the list without [:-1]
Transitions_All(I2) == {m2 \in FRange(I2) : m2 >= 0}

\* [m for m in _frange(-I, I + 1, 1) if m >= 0.0][:-1]
Transitions(I2) == DropLast({m2 \in FRange(I2) : m2 >= 0})

\* one more EFGVzz.get(s) for each atom of the mask
RECURSIVE VzzPerAtom(_, _)
VzzPerAtom(tr, n) ==
  IF n = 0 THEN tr ELSE VzzPerAtom(VzzGet(tr).tr, n - 1)

\* fq = 3 * A * (2m + 1) * sqrt(1 + eta^2 / 3) with
\* A = EFG_TO_CHI * Vzz * Q / (4 I (2I - 1)), in units of EFG_TO_CHI
Frequency(m2, vzz, iso, eta) ==
  Term(Rat(3 * (m2 + 1) * vzz[1] * iso.Q, 2 * iso.I2 * (iso.I2 - 1) * vzz[2]),
       Root(eta))

\* the dict of one atom of the mask I > 0.5
TransitionDict(iso, vzz, eta) ==
  [k \in {TransitionKey(m2) : m2 \in Transitions(iso.I2)} |->
     Frequency(CHOOSE m2 \in Transitions(iso.I2) : TransitionKey(m2) = k,
               vzz, iso, eta)]

NQRDicts(iso, vzz_items, eta_items, tr) ==
  Ok(List([i \in 1..Len(iso) |->
             IF iso[i].I2 > 1
             THEN TransitionDict(iso[i], Plain(vzz_items[i]), Plain(eta_items[i]))
             ELSE [k \in {} |-> Zero]]),
     tr)

NQRFrom(iso, eta) ==
  IF eta.status # "ok" THEN eta
  ELSE NQRDicts(iso, VzzGet(eta.tr).value.items, eta.value.items,
                VzzPerAtom(eta.tr,
                           Cardinality({i \in 1..Len(iso) : iso[i].I2 > 1})))

NQRAfter(iso, d) ==
  IF d.status # "ok" THEN d ELSE NQRFrom(iso, AsymmetryGet(d.tr))

\* EFGNQR.extract: per atom a dict of the transition frequencies
ExtractNQR(tr, params) ==
  NQRAfter(IsotopeColumns(tr, params),
           Diagonalised(Warned(tr, params), params.force_recalc))

QuadrupolarProductFrom(iso, vzz_items, eta) ==
  IF eta.status # "ok" THEN eta
  ELSE Ok(NdArray([i \in 1..Len(iso) |->
                     Term(RMulInt(Plain(vzz_items[i]), iso[i].Q),
                          Root(Plain(eta.value.items[i])))]),
          eta.tr)

QuadrupolarProductFromVzz(iso, vzz) ==
  IF vzz.status # "ok" THEN vzz
  ELSE QuadrupolarProductFrom(iso, vzz.value.items, AsymmetryGet(vzz.tr))

QuadrupolarProductAfter(iso, d) ==
  IF d.status # "ok" THEN d ELSE QuadrupolarProductFromVzz(iso, VzzGet(d.tr))

\* EFGQuadrupolarProduct.extract:
\* EFG_TO_CHI * q_list * EFGVzz.get(s) * (1 + EFGAsymmetry.get(s)^2 / 3)^0.5
ExtractQuadrupolarProduct(tr, params) ==
  QuadrupolarProductAfter(IsotopeColumns(tr, params),
                          Diagonalised(Warned(tr, params), params.force_recalc))

\* EFGTensor.get(s, order=order) inside another extract
TensorGet(tr, order) ==
  GetTensor(Entered(tr), Updated(DefaultParams("EFGTensor"), [order |-> order]))

\* the k-th Euler angle of a tensor object: a symbolic number
EulerAngle(t, convention, passive, k) ==
  Term(<<1, 1>>, [kind |-> "euler", arg |-> <<k, t, convention, passive>>])

EulerFrom(ts, convention, passive) ==
  IF ts.status # "ok" THEN ts
  ELSE Ok(NdArray2([i \in 1..Len(ts.value.items) |->
                      [k \in 1..3 |->
                         EulerAngle(ts.value.items[i], convention, passive, k)]]),
          ts.tr)

\* EFGEuler.extract
ExtractEuler(tr, params) ==
  EulerFrom(TensorGet(tr, params.order), params.convention, params.passive)

QuaternionFrom(ts) ==
  IF ts.status # "ok" THEN ts
  ELSE Ok(List([i \in 1..Len(ts.value.items) |-> [q |-> ts.value.items[i]]]),
          ts.tr)

\* EFGQuaternion.extract
ExtractQuaternion(tr, params) == QuaternionFrom(TensorGet(tr, params.order))

\* the extract of each class
Extract(cls, tr, params) ==
  CASE cls = "EFGTensor" -> ExtractTensor(tr, params)
    [] cls = "EFGDiagonal" -> ExtractDiagonal(tr, params)
    [] cls \in ScalarCached -> ExtractScalar(cls, tr, params)
    [] cls = "EFGQuadrupolarConstant" -> ExtractQuadrupolarConstant(tr, params)
    [] cls = "EFGNQR" -> ExtractNQR(tr, params)
    [] cls = "EFGQuadrupolarProduct" -> ExtractQuadrupolarProduct(tr, params)
    [] cls = "EFGEuler" -> ExtractEuler(tr, params)
    [] cls = "EFGQuaternion" -> ExtractQuaternion(tr, params)

Checked(cls, tr, params, check) ==
  IF check # "ok" THEN Raise(check, tr) ELSE Extract(cls, tr, params)

\* the class's extract, decorated by _has_efg_check, called as
\* extract(s, **params)
decorated_f(cls, tr, params) ==
  Checked(cls, Entered(tr), params, HasEfgCheck(cls, tr, params))

\* a get that validates its keywords as the constructor does
Get_Validated(cls, tr, kwargs) ==
  IF \E p \in DOMAIN kwargs : p \notin DOMAIN DefaultParams(cls)
  THEN Raise("ValueError", tr)
  ELSE decorated_f(cls, tr, Updated(DefaultParams(cls), kwargs))

\* AtomsProperty.get on one structure: defaults updated with the keywords
Get(cls, tr, kwargs) == decorated_f(cls, tr, Updated(DefaultParams(cls), kwargs))

----------------------------------------------------------------------------
(* Dispatch on the shape of the input: AtomsProperty.get and __call__ *)

\* What a call on a collection or a trajectory returns: the traces trs of all
\* structures and the named arrays coll of the collection go with the value.
Done(status, value, trs, coll) ==
  [status |-> status, value |-> value, trs |-> trs, coll |-> coll]

\* a member that fails is left out
Step_Skip(st, s, r) ==
  [status |-> "ok",
   value |-> IF r.status = "ok" THEN Append(st.value, r.value) ELSE st.value,
   trs |-> [st.trs EXCEPT ![s] = r.tr]]

\* the evaluation of one more member s, with result r
Step(st, s, r) ==
  [status |-> r.status,
   value |-> IF r.status = "ok" THEN Append(st.value, r.value) ELSE <<>>,
   trs |-> [st.trs EXCEPT ![s] = r.tr]]

\* [f(a) for a in ids], f the class's extract under the parameters P: the
\* members are evaluated in order and the first error ends the evaluation
RECURSIVE ForEach(_, _, _, _)
ForEach(cls, ids, P, st) ==
  IF ids = <<>> \/ st.status # "ok" THEN st
  ELSE ForEach(cls, Tail(ids), P,
               Step(st, Head(ids), decorated_f(cls, st.trs[Head(ids)], P)))

Start(trs) == [status |-> "ok", value |-> <<>>, trs |-> trs]

\* AtomsCollection.all.map(f)
AllMap(cls, ids, trs, P) == ForEach(cls, ids, P, Start(trs))

\* NMRTensor.average(tensors): a value of its own, not a mean of the data
TensorAverage(tensors) == [data |-> [average_of |-> tensors]]

\* x + y of two float arrays, with numpy's broadcasting of the first axis
AddItem(x, y, ndim) ==
  IF ndim = 1 THEN NAdd(x, y) ELSE [k \in 1..Len(x) |-> NAdd(x[k], y[k])]

DivItem(x, n, ndim) ==
  IF ndim = 1 THEN NDivInt(x, n) ELSE [k \in 1..Len(x) |-> NDivInt(x[k], n)]

Broadcastable(a, b) == Len(a) = Len(b) \/ Len(a) = 1 \/ Len(b) = 1

ArrayAdd(a, b, ndim) ==
  [i \in 1..(IF Len(a) = 1 THEN Len(b) ELSE Len(a)) |->
     AddItem(a[IF Len(a) = 1 THEN 1 ELSE i], b[IF Len(b) = 1 THEN 1 ELSE i],
             ndim)]

\* sum(results), left to right from the int 0
RECURSIVE SumArrays(_, _, _)
SumArrays(results, i, acc) ==
  IF i > Len(results) THEN [status |-> "ok", items |-> acc]
  ELSE IF ~Broadcastable(acc, results[i].items)
  THEN [status |-> "ValueError", items |-> <<>>]
  ELSE SumArrays(results, i + 1,
                 ArrayAdd(acc, results[i].items, results[i].ndim))

MeanFrom(first, total, n) ==
  IF first.type = "list" \/ first.dtype = "object"
  THEN [status |-> "TypeError", value |-> <<>>]
  ELSE IF total.status # "ok" THEN [status |-> total.status, value |-> <<>>]
  ELSE [status |-> "ok",
        value |-> [first EXCEPT !.items =
                     [i \in 1..Len(total.items) |->
                        DivItem(total.items[i], n, first.ndim)]]]

\* sum(results) / len(results) of a non-empty list of results
MeanOf(results) ==
  MeanFrom(results[1], SumArrays(results, 2, results[1].items), Len(results))

TensorsUpTo(results, n_atoms) ==
  List([i \in 1..n_atoms |->
          TensorAverage([f \in 1..Len(results) |-> results[f].items[i]])])

\* the tensor branch of the average
AverageTensors(results) ==
  TensorsUpTo(results, MinOf({Len(results[f].items) : f \in 1..Len(results)}))

Returned(r, trs, coll) == Done(r.status, r.value, trs, coll)

\* the array stored whether requested or not
GetStore_Always(arr, coll, store_array, default_name) ==
  IF arr.status # "ok" THEN Done(arr.status, <<>>, arr.trs, coll)
  ELSE Done("ok", List(arr.value), arr.trs,
            SetArray(coll, default_name, List(arr.value)))

\* "if store_array: s.set_array(self.default_name, arr); return arr"
GetStore(arr, coll, store_array, default_name) ==
  IF arr.status # "ok" THEN Done(arr.status, <<>>, arr.trs, coll)
  ELSE Done("ok", List(arr.value), arr.trs,
            IF store_array THEN SetArray(coll, default_name, List(arr.value))
            ELSE coll)

\* get on a collection
GetCollection(cls, ids, trs, coll, store_array, kwargs) ==
  GetStore(AllMap(cls, ids, trs, Updated(DefaultParams(cls), kwargs)),
           coll, store_array, DefaultName(cls))

\* the average without the tensor branch
AverageFrom_NaiveMean(rs, coll) ==
  IF rs.status # "ok" THEN Done(rs.status, <<>>, rs.trs, coll)
  ELSE IF rs.value = <<>> THEN Done("ok", None, rs.trs, coll)
  ELSE Returned(MeanOf(rs.value), rs.trs, coll)

AverageFrom(rs, coll) ==
  IF rs.status # "ok" THEN Done(rs.status, <<>>, rs.trs, coll)
  ELSE IF rs.value = <<>> THEN Done("ok", None, rs.trs, coll)
  ELSE IF /\ rs.value[1].type = "list"
          /\ Len(rs.value[1].items) > 0
          /\ HasData(rs.value[1].items[1])
  THEN Done("ok", AverageTensors(rs.value), rs.trs, coll)
  ELSE Returned(MeanOf(rs.value), rs.trs, coll)

\* get on a trajectory with average == True
GetAverage(cls, ids, trs, coll, kwargs) ==
  AverageFrom(ForEach(cls, ids, Updated(DefaultParams(cls), kwargs), Start(trs)),
              coll)

\* the call on the single structure s returned r
Single(r, s, trs, coll) ==
  Done(r.status, r.value, [trs EXCEPT ![s] = r.tr], coll)

\* the first frame taken for the last
GetLast_First(cls, ids, trs, coll, kwargs) ==
  IF ids = <<>> THEN Done("IndexError", <<>>, trs, coll)
  ELSE Single(Get(cls, trs[ids[1]], kwargs), ids[1], trs, coll)

\* get on a trajectory without average: the last frame
GetLast(cls, ids, trs, coll, kwargs) ==
  IF ids = <<>> THEN Done("IndexError", <<>>, trs, coll)
  ELSE Single(Get(cls, trs[ids[Len(ids)]], kwargs), ids[Len(ids)], trs, coll)

\* AtomsProperty.get(s, store_array, average, **kwargs); the input s is
\* [shape, ids]: one structure ("atoms"), a "collection" or a "list" of frames
ClassGet(cls, inp, trs, coll, store_array, average, kwargs) ==
  CASE inp.shape = "collection" ->
         GetCollection(cls, inp.ids, trs, coll, store_array, kwargs)
    [] inp.shape = "list" /\ average -> GetAverage(cls, inp.ids, trs, coll, kwargs)
    [] inp.shape = "list" /\ ~average -> GetLast(cls, inp.ids, trs, coll, kwargs)
    [] inp.shape = "atoms" ->
         Single(Get(cls, trs[inp.ids[1]], kwargs), inp.ids[1], trs, coll)

\* the constructor without the validation of the keywords
AtomsProperty_init_Unchecked(cls, name, params) ==
  [status |-> "ok", cls |-> cls,
   name |-> IF name # "" THEN name ELSE DefaultName(cls),
   params |-> Updated(DefaultParams(cls), params)]

\* AtomsProperty.__init__(name, **params); name "" stands for None
AtomsProperty_init(cls, name, params) ==
  IF \E p \in DOMAIN params : p \notin DOMAIN DefaultParams(cls)
  THEN [status |-> "ValueError", cls |-> cls, name |-> "", params |-> NoKw]
  ELSE [status |-> "ok", cls |-> cls,
        name |-> IF name # "" THEN name ELSE DefaultName(cls),
        params |-> Updated(DefaultParams(cls), params)]

\* "if store_array: s.set_array(self.name, arr); return arr"
CallStore(arr, coll, store_array, name) ==
  IF arr.status # "ok" THEN Done(arr.status, <<>>, arr.trs, coll)
  ELSE Done("ok", List(arr.value), arr.trs,
            IF store_array THEN SetArray(coll, name, List(arr.value)) ELSE coll)

\* the result stored under the default name, as get does
AtomsProperty_call_DefaultName(self, inp, trs, coll, store_array) ==
  IF inp.shape = "collection"
  THEN CallStore(AllMap(self.cls, inp.ids, trs, self.params), coll, store_array,
                 DefaultName(self.cls))
  ELSE IF inp.shape = "list" THEN Done("AttributeError", <<>>, trs, coll)
  ELSE Single(decorated_f(self.cls, trs[inp.ids[1]], self.params), inp.ids[1],
              trs, coll)

\* AtomsProperty.__call__(s, store_array) of the instance self.  Whatever is
\* no collection goes to extract as it is, and a list has no attribute has.
AtomsProperty_call(self, inp, trs, coll, store_array) ==
  IF inp.shape = "collection"
  THEN CallStore(AllMap(self.cls, inp.ids, trs, self.params), coll, store_array,
                 self.name)
  ELSE IF inp.shape = "list" THEN Done("AttributeError", <<>>, trs, coll)
  ELSE Single(decorated_f(self.cls, trs[inp.ids[1]], self.params), inp.ids[1],
              trs, coll)

----------------------------------------------------------------------------
(* The state machine: a single caller who, one step at a time, edits the   *)
(* raw data of a structure, constructs a property instance and calls it,   *)
(* or evaluates a property.  atoms holds the named arrays of every         *)
(* structure; last holds the operation in hand: its arguments, the state   *)
(* it started from and what it returned, until the caller goes on.         *)

AtomsInputs == {[shape |-> "atoms", ids |-> <<s>>] : s \in Structs}
SeqInputs(shape) ==
  {[shape |-> shape, ids |-> q] : q \in SeqsUpTo(Structs, MaxFrames)}
AllInputs == AtomsInputs \cup SeqInputs("collection") \cup SeqInputs("list")

\* the keyword overrides tried; each is undeclared for some of the classes
Keywords ==
  {NoKw, [force_recalc |-> TRUE], [save_array |-> FALSE],
   [order |-> ORDER_HAEBERLEN]}

\* instance names: "" is name=None
Names == {"", "my_name"}

\* the arrays a collection may hold before the call
Old == List(<<>>)
CollectionsBefore(cls) ==
  {NoArrays, [n \in {DefaultName(cls), "my_name", "other"} |-> Old]}

NoInstance == [status |-> "none", cls |-> "", name |-> "", params |-> NoKw]
NoInput == [shape |-> "none", ids |-> <<>>]

Traces(a) == [s \in Structs |-> Trace(s, a[s])]

Idle ==
  [op |-> "none", cls |-> "", name |-> "", kwargs |-> NoKw, inp |-> NoInput,
   store_array |-> FALSE, average |-> FALSE, pre |-> <<>>, collPre |-> NoArrays,
   status |-> "none", value |-> <<>>, trs |-> <<>>, coll |-> NoArrays,
   inst |-> NoInstance]

\* every structure as read from its file: the raw 'efg' array and no cache
Init ==
  /\ atoms = [s \in Structs |-> SetArray(NoArrays, EFG, EfgData(s, 1))]
  /\ last = Idle

\* the caller writes the raw data set v: s.set_array('efg', ...)
SetEfg(s, v) ==
  /\ last = Idle
  /\ IF Has(atoms[s], EFG) THEN atoms[s][EFG] # EfgData(s, v) ELSE TRUE
  /\ atoms' = [atoms EXCEPT ![s] = SetArray(@, EFG, EfgData(s, v))]
  /\ last' = Idle

\* the caller removes the raw data: del s.arrays['efg']
DelEfg(s) ==
  /\ last = Idle
  /\ Has(atoms[s], EFG)
  /\ atoms' = [atoms EXCEPT ![s] = DelArray(@, EFG)]
  /\ last' = Idle

Constructed(cls, name, params, pre, r) ==
  [Idle EXCEPT !.op = "init", !.cls = cls, !.name = name, !.kwargs = params,
               !.pre = pre, !.status = r.status, !.inst = r]

\* p = cls(name=name, **params)
Construct(cls, name, params) ==
  /\ last = Idle
  /\ last' = Constructed(cls, name, params, atoms,
                          AtomsProperty_init(cls, name, params))
  /\ UNCHANGED atoms

\* the record of an evaluation that returned r
Evaluated(op, cls, kwargs, inp, coll, store_array, average, inst, pre, r) ==
  [op |-> op, cls |-> cls, name |-> "", kwargs |-> kwargs, inp |-> inp,
   store_array |-> store_array, average |-> average, pre |-> pre,
   collPre |-> coll, status |-> r.status, value |-> r.value, trs |-> r.trs,
   coll |-> r.coll, inst |-> inst]

\* cls.get(inp, store_array=..., average=..., **kwargs)
DoGet(cls, inp, coll, store_array, average, kwargs) ==
  /\ last = Idle
  /\ last' = Evaluated("get", cls, kwargs, inp, coll, store_array, average,
                       NoInstance, atoms,
                       ClassGet(cls, inp, Traces(atoms), coll, store_array,
                                average, kwargs))
  /\ atoms' = [s \in Structs |-> last'.trs[s].arrays]

\* p(inp, store_array=...) of the instance p constructed last
DoCall(inp, coll, store_array) ==
  /\ last.op = "init" /\ last.status = "ok"
  /\ last' = [Evaluated("call", last.cls, last.kwargs, inp, coll, store_array,
                        FALSE, last.inst, atoms,
                        AtomsProperty_call(last.inst, inp, Traces(atoms), coll,
                                           store_array))
                EXCEPT !.name = last.name]
  /\ atoms' = [s \in Structs |-> last'.trs[s].arrays]

\* the caller has taken the result and goes on
Return ==
  /\ last # Idle
  /\ last' = Idle
  /\ UNCHANGED atoms

\* store_array matters for a collection only and average for a list only:
\* the other combinations repeat these
Relevant(inp, coll, store_array, average) ==
  /\ inp.shape # "collection" => ~store_array /\ coll = NoArrays
  /\ inp.shape # "list" => ~average

Next ==
  \/ \E s \in Structs : SetEfg(s, 1)
  \/ \E s \in Structs : DelEfg(s)
  \/ /\ last = Idle
     /\ \E cls \in Classes, name \in Names, params \in Keywords :
           Construct(cls, name, params)
  \/ /\ last = Idle
     /\ \E cls \in Classes, inp \in AllInputs, store_array \in BOOLEAN,
           average \in BOOLEAN, kwargs \in Keywords :
         \E coll \in CollectionsBefore(cls) :
           /\ Relevant(inp, coll, store_array, average)
           /\ DoGet(cls, inp, coll, store_array, average, kwargs)
  \/ /\ last.op = "init"
     /\ \E inp \in AllInputs, coll \in CollectionsBefore(last.cls),
           store_array \in BOOLEAN :
           /\ Relevant(inp, coll, store_array, FALSE)
           /\ DoCall(inp, coll, store_array)
  \/ Return

Spec == Init /\ [][Next]_vars

\* The same caller working on single structures, with two raw data sets, so
\* that a cache can be older than the raw data.
NextCache ==
  \/ \E s \in Structs, v \in {1, 2} : SetEfg(s, v)
  \/ \E s \in Structs : DelEfg(s)
  \/ /\ last = Idle
     /\ \E cls \in Classes, name \in Names, params \in Keywords :
           Construct(cls, name, params)
  \/ /\ last = Idle
     /\ \E cls \in Classes, inp \in AtomsInputs, kwargs \in Keywords :
           DoGet(cls, inp, NoArrays, FALSE, FALSE, kwargs)
  \/ \E inp \in AtomsInputs : DoCall(inp, NoArrays, FALSE)
  \/ Return

SpecCache == Init /\ [][NextCache]_vars

\* The caller of the four isotope-aware classes, trying the three isotope
\* keywords on single structures.
IsotopeClasses == {"EFGTensor"} \cup IsotopeCached

\* longest isotope_list tried
MaxIsotopeList == 3

\* what an isotope_list may hold for an atom of the element: None (0) or an
\* isotope the element has
IsotopeChoices(elem) ==
  CASE elem = "H" -> {0, 1, 2} [] elem = "N" -> {0, 15} [] elem = "B" -> {0, 10}

\* the isotope_list values tried on atoms of the elements elems: None, and
\* the lists of every length up to MaxIsotopeList (None beyond the atoms)
IsotopeLists(elems) ==
  {NoIsotopeList} \cup
  {[given |-> TRUE, list |-> l] :
     l \in {q \in SeqsUpTo({0, 1, 2, 10, 15}, MaxIsotopeList) :
              \A i \in 1..Len(q) :
                IF i <= Len(elems) THEN q[i] \in IsotopeChoices(elems[i])
                ELSE q[i] = 0}}

\* the isotopes dicts tried
IsotopeDicts ==
  {NoIsotopes, [e \in {"H"} |-> 2],
   [e \in {"N", "B"} |-> IF e = "N" THEN 15 ELSE 10]}

IsotopeKeywords(s) ==
  [use_q_isotopes : BOOLEAN, isotopes : IsotopeDicts,
   isotope_list : IsotopeLists(ChemicalSymbols(s))]

NextIso ==
  \/ /\ last = Idle
     /\ \E cls \in IsotopeClasses, s \in Structs :
          \E kwargs \in IsotopeKeywords(s) :
            DoGet(cls, [shape |-> "atoms", ids |-> <<s>>], NoArrays, FALSE,
                  FALSE, kwargs)
  \/ Return

SpecIso == Init /\ [][NextIso]_vars

----------------------------------------------------------------------------
(* The nmr command on one file: the tagging of equivalent sites and of      *)
(* functional groups, the table of sites, and its aggregation by tag.       *)
(* Atom i of the model (1..n) is atom i-1 of the code.                      *)

\* most atoms in a file
MaxAtoms == 4

\* the elements in the files read
Elements == {"H", "C"}

\* the files read: the chemical symbols of the atoms
SymbolLists == [1..MaxAtoms -> Elements]

\* the set as an ascending sequence: what np.where(...)[0] and np.unique give
RECURSIVE Sorted(_)
Sorted(S) ==
  IF S = {} THEN <<>> ELSE <<MinOf(S)>> \o Sorted(S \ {MinOf(S)})

\* Bonds(vdw_scale, return_matrix=True)(atoms): the bond matrix, as the set
\* of the bonded pairs
Bonded(bmat, i, j) == {i, j} \in bmat

\* the matrices tried: bonds between an H atom and an atom of another
\* element, the only entries find_XHn_groups reads
BondMatrices(symbs) ==
  SUBSET {{h, x} : h \in {i \in DOMAIN symbs : symbs[i] = "H"},
                   x \in {i \in DOMAIN symbs : symbs[i] # "H"}}

\* tags = np.arange(len(atoms))
Arange(n) == [i \in 1..n |-> i - 1]

\* UniqueSites.get(atoms, symprec): equivalent atoms carry the index of the
\* first of them, and are of one element
SymmetryTags(symbs) ==
  {t \in [DOMAIN symbs -> 0..(Len(symbs) - 1)] :
     \A i \in DOMAIN symbs :
       /\ t[i] + 1 = MinOf({j \in DOMAIN symbs : t[j] = t[i]})
       /\ symbs[t[i] + 1] = symbs[i]}

\* the symmetry of the structure keeps its bonds: equivalent atoms are
\* bonded to as many atoms of each class of equivalent atoms
Symmetric(bmat, t) ==
  \A i \in DOMAIN t, j \in DOMAIN t :
    t[i] = t[j] =>
      \A c \in {t[k] : k \in DOMAIN t} :
        Cardinality({k \in DOMAIN t : t[k] = c /\ Bonded(bmat, i, k)}) =
        Cardinality({k \in DOMAIN t : t[k] = c /\ Bonded(bmat, j, k)})

\* the group patterns of --average-group, already split at 'H': CH1 and CH2
GroupPatterns == {[X |-> "C", n |-> 1], [X |-> "C", n |-> 2]}

\* longest pattern string tried, in patterns
MaxPatterns == 2

\* hinds = np.where(symbs == "H")[0]
HIndices(symbs) == Sorted({i \in DOMAIN symbs : symbs[i] = "H"})

\* xinds: the X atoms whose row of bmat sums to n over the H atoms
XIndices(symbs, bmat, X, n) ==
  Sorted({x \in DOMAIN symbs :
            /\ symbs[x] = X
            /\ Cardinality({h \in DOMAIN symbs :
                              symbs[h] = "H" /\ Bonded(bmat, x, h)}) = n})

\* group = list(np.where(bmat[xind][hinds] == 1)[0]): the positions in hinds
\* of the H atoms bonded to xind
GroupOf(bmat, hinds, xind) ==
  Sorted({p \in DOMAIN hinds : Bonded(bmat, xind, hinds[p])})

\* tags[group]
TagsOf(tags, group) == [k \in DOMAIN group |-> tags[group[k]]]

\* the larger of the two
Max2(a, b) == IF a > b THEN a ELSE b

\* every candidate is recorded, none joins a recorded group
Candidate_AlwaysRecorded(st, group, tags) ==
  LET match == {j \in DOMAIN st.seen_tags :
                  st.seen_tags[j] = TagsOf(tags, group)}
  IN  IF st.status # "ok" THEN st
      ELSE IF Cardinality(match) <= 1
        THEN [st EXCEPT !.seen_tags = Append(@, TagsOf(tags, group)),
                        !.groups = Append(@, group),
                        !.matches = Max2(@, Cardinality(match))]
      ELSE [st EXCEPT !.status = "ValueError",
                      !.matches = Max2(@, Cardinality(match))]

\* one turn of the loop over xinds: the candidate group joins the recorded
\* group whose tags it matches, or is recorded, or the search fails;
\* st.matches keeps the most recorded groups any candidate has matched
Candidate(st, group, tags) ==
  LET match == {j \in DOMAIN st.seen_tags :
                  st.seen_tags[j] = TagsOf(tags, group)}
  IN  IF st.status # "ok" THEN st
      ELSE IF Cardinality(match) = 1
        THEN [st EXCEPT !.groups[CHOOSE j \in match : TRUE] = @ \o group,
                        !.matches = Max2(@, 1)]
      ELSE IF match = {}
        THEN [st EXCEPT !.seen_tags = Append(@, TagsOf(tags, group)),
                        !.groups = Append(@, group)]
      ELSE [st EXCEPT !.status = "ValueError",
                      !.matches = Max2(@, Cardinality(match))]

RECURSIVE GroupsOfPattern(_, _, _, _, _)
GroupsOfPattern(bmat, hinds, tags, xinds, st) ==
  IF xinds = <<>> THEN st
  ELSE GroupsOfPattern(bmat, hinds, tags, Tail(xinds),
                       Candidate(st, GroupOf(bmat, hinds, Head(xinds)), tags))

\* find_XHn_groups(atoms, pattern_string, tags, vdw_scale) from pattern k on;
\* besides the groups, found keeps the seen_tags of every pattern
RECURSIVE find_XHn_groups_from(_, _, _, _, _, _)
find_XHn_groups_from(symbs, bmat, patterns, tags, k, found) ==
  IF k > Len(patterns) THEN found
  ELSE LET st == GroupsOfPattern(bmat, HIndices(symbs), tags,
                   XIndices(symbs, bmat, patterns[k].X, patterns[k].n),
                   [status |-> "ok", seen_tags |-> <<>>, groups |-> <<>>,
                    matches |-> found.matches])
       IN  IF st.status # "ok"
           THEN [status |-> st.status, value |-> <<>>,
                 seen_tags |-> Append(found.seen_tags, st.seen_tags),
                 matches |-> st.matches]
           ELSE find_XHn_groups_from(symbs, bmat, patterns, tags, k + 1,
                  [status |-> "ok", value |-> Append(found.value, st.groups),
                   seen_tags |-> Append(found.seen_tags, st.seen_tags),
                   matches |-> st.matches])

\* nothing found yet
NoGroups ==
  [status |-> "ok", value |-> <<>>, seen_tags |-> <<>>, matches |-> 0]

find_XHn_groups(symbs, bmat, patterns, tags) ==
  find_XHn_groups_from(symbs, bmat, patterns, tags, 1, NoGroups)

\* the tag of group ig of pattern ipat, both counted from 0
SynthTag(ipat, ig) == (0 - (ipat + 1)) * 100000 - ig

\* tags[group] = -(ipat+1)*1e5-ig
TagGroup(tags, group, ipat, ig) ==
  [i \in DOMAIN tags |->
     IF \E k \in DOMAIN group : group[k] = i THEN SynthTag(ipat, ig)
     ELSE tags[i]]

\* the loops over the patterns and over the groups of each, from group ig of
\* pattern ipat on (both counted from 1 here)
RECURSIVE TagGroups(_, _, _, _)
TagGroups(tags, XHn_groups, ipat, ig) ==
  IF ipat > Len(XHn_groups) THEN tags
  ELSE IF ig > Len(XHn_groups[ipat])
    THEN TagGroups(tags, XHn_groups, ipat + 1, 1)
  ELSE TagGroups(TagGroup(tags, XHn_groups[ipat][ig], ipat - 1, ig - 1),
                 XHn_groups, ipat, ig + 1)

\* A string is the sequence of its character codes.
Chr(symbol) == IF symbol = "H" THEN 72 ELSE 67
Digit(d) == 48 + d
Comma == <<44>>
Dashes == <<45, 45>>

\* a < b as Python and numpy order strings
RECURSIVE StrLess(_, _)
StrLess(a, b) ==
  IF b = <<>> THEN FALSE
  ELSE IF a = <<>> THEN TRUE
  ELSE IF Head(a) # Head(b) THEN Head(a) < Head(b)
  ELSE StrLess(Tail(a), Tail(b))

\* the strings of the set in ascending order: np.unique(...), sorted(...)
RECURSIVE SortedStrings(_)
SortedStrings(S) ==
  IF S = {} THEN <<>>
  ELSE LET least == CHOOSE a \in S : \A b \in S \ {a} : StrLess(a, b)
       IN  <<least>> \o SortedStrings(S \ {least})

\* sep.join(strs)
RECURSIVE Join(_, _)
Join(sep, strs) ==
  IF strs = <<>> THEN <<>>
  ELSE IF Len(strs) = 1 THEN strs[1]
  ELSE strs[1] \o sep \o Join(sep, Tail(strs))

\* the labels of the file, one for each site: H1, H2, C3
FileLabels(symbs) == [i \in DOMAIN symbs |-> <<Chr(symbs[i]), Digit(i)>>]

\* a value written into the labels array, of dtype U25
U25(s) == IF Len(s) > 25 THEN SubSeq(s, 1, 25) ELSE s

\* combined_label = '--'.join(np.unique(labels[group]));
\* labels[group] = combined_label
LabelGroup(labels, group) ==
  LET combined_label ==
        Join(Dashes, SortedStrings({labels[group[k]] : k \in DOMAIN group}))
  IN  [i \in DOMAIN labels |->
         IF \E k \in DOMAIN group : group[k] = i THEN U25(combined_label)
         ELSE labels[i]]

\* the same loops, for the labels
RECURSIVE LabelGroups(_, _, _, _)
LabelGroups(labels, XHn_groups, ipat, ig) ==
  IF ipat > Len(XHn_groups) THEN labels
  ELSE IF ig > Len(XHn_groups[ipat])
    THEN LabelGroups(labels, XHn_groups, ipat + 1, 1)
  ELSE LabelGroups(LabelGroup(labels, XHn_groups[ipat][ig]),
                   XHn_groups, ipat, ig + 1)

\* nmr() up to atoms.set_tags(tags)
NmrTag(symbs, bmat, reduce, sym_tags, average_group) ==
  LET tags == IF reduce THEN sym_tags ELSE Arange(Len(symbs))
      found == IF average_group # <<>>
               THEN find_XHn_groups(symbs, bmat, average_group, tags)
               ELSE NoGroups
  IN  /\ last' = [op |-> "tag", symbs |-> symbs, bmat |-> bmat,
                  seen_tags |-> found.seen_tags, matches |-> found.matches,
                  reduce |-> reduce, average_group |-> average_group,
                  symmetry |-> tags, status |-> found.status,
                  XHn_groups |-> found.value,
                  tags |-> IF found.status = "ok"
                           THEN TagGroups(tags, found.value, 1, 1)
                           ELSE tags,
                  labels |-> IF found.status = "ok"
                             THEN LabelGroups(FileLabels(symbs), found.value,
                                              1, 1)
                             ELSE FileLabels(symbs)]
      /\ UNCHANGED atoms

\* MagresViewLabels.get(atoms): H_1, H_2, C_1, the atoms counted by element
MagresViewLabels(symbs) ==
  [i \in DOMAIN symbs |->
     <<Chr(symbs[i]), 95,
       Digit(Cardinality({j \in 1..i : symbs[j] = symbs[i]}))>>]

\* species: the default isotope before the element, 1H and 13C
SpeciesOf(symbol) == IF symbol = "H" THEN <<49, 72>> ELSE <<49, 51, 67>>

\* the two kinds of files read: 1 with CIF labels, 2 without; VzzData and
\* AsymmetryData are what EFGVzz.get and EFGAsymmetry.get return for atom i
\* of the file, as rationals
DataSets == {1, 2}
HasCifLabels(v) == v = 1
VzzData(v, i) ==
  IF v = 1 THEN (IF i <= 2 THEN <<10, 1>> ELSE <<5, 1>>) ELSE <<2 * i + 1, 1>>
AsymmetryData(v, i) ==
  IF v = 1 THEN (IF i <= 2 THEN Rat(1, 10) ELSE Rat(3, 10)) ELSE Rat(i, 10)

\* get_duplicates(seq): the values that occur more than once, each with its
\* positions
get_duplicates(seq) ==
  LET locs(item) == {i \in DOMAIN seq : seq[i] = item}
  IN  [item \in {seq[i] : i \in DOMAIN seq} |-> Sorted(locs(item))]

\* soprano.utils.average_quaternions(quat_group): the circular average of
\* the quaternions, named by what it averages
average_quaternions(quat_group) == [average_of |-> quat_group]

\* the quaternion EFGQuaternion.get returns for atom i
QuaternionData(n) == [i \in 1..n |-> [atom |-> i]]

\* only the first position of a repeated tag takes the average
average_quaternions_by_tags_FirstMember(quaternions, tags) ==
  LET dupl_dict == get_duplicates(tags)
  IN  [i \in DOMAIN quaternions |->
         IF Len(dupl_dict[tags[i]]) > 1 /\ dupl_dict[tags[i]][1] = i
         THEN average_quaternions(
                [k \in DOMAIN dupl_dict[tags[i]] |->
                   quaternions[dupl_dict[tags[i]][k]]])
         ELSE quaternions[i]]

average_quaternions_by_tags(quaternions, tags) ==
  LET dupl_dict == get_duplicates(tags)
  IN  [i \in DOMAIN quaternions |->
         IF Len(dupl_dict[tags[i]]) > 1
         THEN average_quaternions(
                [k \in DOMAIN dupl_dict[tags[i]] |->
                   quaternions[dupl_dict[tags[i]][k]]])
         ELSE quaternions[i]]

\* the columns of df before the aggregation; the Euler angle columns, which
\* are computed from the averaged quaternions, are kept apart in quat
ColumnsOf(has_cif_labels) ==
  <<"indices", "labels">>
  \o (IF has_cif_labels THEN <<>> ELSE <<"MagresView_labels">>)
  \o <<"species", "multiplicity", "tags", "file", "EFG_Vzz", "EFG_asymmetry">>

\* the names in the sequence
Range(s) == {s[k] : k \in DOMAIN s}

\* the row of atom i
RowOf(l, v, columns, i) ==
  [col \in Range(columns) |->
     CASE col = "indices" -> i - 1
       [] col = "labels" -> l.labels[i]
       [] col = "MagresView_labels" -> MagresViewLabels(l.symbs)[i]
       [] col = "species" -> SpeciesOf(l.symbs[i])
       [] col = "multiplicity" -> 1
       [] col = "tags" -> l.tags[i]
       [] col = "file" -> <<102>>
       [] col = "EFG_Vzz" -> VzzData(v, i)
       [] col = "EFG_asymmetry" -> AsymmetryData(v, i)]

\* df = pd.DataFrame({...}) and the columns of get_efg_summary: one row for
\* each atom
NmrTable(v) ==
  /\ last.op = "tag"
  /\ last.status = "ok"
  /\ last' = [op |-> "table",
              aggregate |-> (last.average_group # <<>> \/ last.reduce),
              columns |-> ColumnsOf(HasCifLabels(v)),
              df |-> [i \in DOMAIN last.tags |->
                        RowOf(last, v, ColumnsOf(HasCifLabels(v)), i)],
              tags |-> last.tags,
              quat |-> average_quaternions_by_tags(
                         QuaternionData(Len(last.tags)), last.tags)]
  /\ UNCHANGED atoms

\* df.iloc[selection_indices], the indices sorted
Selected(df, selection) ==
  LET idx == Sorted(selection) IN [k \in DOMAIN idx |-> df[idx[k]]]

\* the rows of one group of df.groupby('tags')
Members(df, tag) == SelectSeq(df, LAMBDA row : row.tags = tag)

\* the columns of dtype object
ObjectColumns == {"labels", "MagresView_labels", "species", "file"}

\* aggrules: combine_rule, 'first' for the object columns, set for labels
\* and 'count' for multiplicity.  The test for the MagresView labels looks
\* for a column 'MagresViewLabels', which is not the name of the column.
RuleOf(col, columns, combine_rule) ==
  CASE col = "multiplicity" -> "count"
    [] col = "labels" -> "set"
    [] col = "MagresView_labels" /\ "MagresViewLabels" \in Range(columns)
         -> "set"
    [] col \in ObjectColumns -> "first"
    [] OTHER -> combine_rule

\* aggrules['multiplicity'] = 'count'
MultiplicityRule_First(rows) == rows[1].multiplicity

MultiplicityRule(rows) == Len(rows)

RECURSIVE SumOf(_, _, _)
SumOf(rows, col, k) ==
  IF k > Len(rows) THEN <<0, 1>>
  ELSE RAdd(rows[k][col], SumOf(rows, col, k + 1))

\* 'mean'
MeanRule_First(rows, col) == rows[1][col]

MeanRule(rows, col) == RDivInt(SumOf(rows, col, 1), Len(rows))

\* the elements of a Python set of strings in the order of iteration, which
\* depends on the hash seed of the run
Iterated(S, seed) ==
  LET asc == SortedStrings(S)
      r == seed % Len(asc)
  IN  [k \in DOMAIN asc |-> asc[((k - 1 + r) % Len(asc)) + 1]]

\* sorted(list(x)) of a string x: its characters in ascending order
RECURSIVE SortedChars(_)
SortedChars(x) ==
  IF x = <<>> THEN <<>>
  ELSE LET k == CHOOSE k \in DOMAIN x : x[k] = MinOf(Range(x))
       IN  <<<<x[k]>>>>
           \o SortedChars(SubSeq(x, 1, k - 1) \o SubSeq(x, k + 1, Len(x)))

\* the cell of the column in the row of a group: the rule applied to the
\* rows of the group, and the labels joined
AggregateCell(rows, col, rule, seed) ==
  CASE rule = "count" -> MultiplicityRule(rows)
    [] rule = "mean" -> MeanRule(rows, col)
    [] rule = "set" /\ col = "labels" ->
         Join(Comma, Iterated({rows[k][col] : k \in DOMAIN rows}, seed))
    [] rule = "set" /\ col = "MagresView_labels" ->
         Join(Comma, SortedStrings({rows[k][col] : k \in DOMAIN rows}))
    [] rule = "first" /\ col = "MagresView_labels" ->
         Join(Comma, SortedChars(rows[1][col]))
    [] rule = "first" -> rows[1][col]

\* the columns after grouped.agg(aggrules).reset_index(): tags first, and no
\* indices
AggregatedColumns(columns) ==
  <<"tags">> \o SelectSeq(columns, LAMBDA col : col \notin {"indices", "tags"})

\* grouped.agg(aggrules).reset_index(): one row for each tag, the tags
\* ascending
Aggregated(df, columns, combine_rule, seed) ==
  LET keys == Sorted({df[i].tags : i \in DOMAIN df})
  IN  [k \in DOMAIN keys |->
         [col \in Range(AggregatedColumns(columns)) |->
            IF col = "tags" THEN keys[k]
            ELSE AggregateCell(Members(df, keys[k]), col,
                               RuleOf(col, columns, combine_rule), seed)]]

\* the selection applied and the group averaging
NmrAggregate(selection, combine_rule, seed) ==
  /\ last.op = "table"
  /\ last' = [op |-> "aggregate", aggregate |-> last.aggregate,
              combine_rule |-> combine_rule,
              selected |-> Selected(last.df, selection),
              columns_before |-> last.columns,
              columns |-> IF last.aggregate
                          THEN AggregatedColumns(last.columns)
                          ELSE last.columns,
              df |-> IF last.aggregate
                     THEN Aggregated(Selected(last.df, selection),
                                     last.columns, combine_rule, seed)
                     ELSE Selected(last.df, selection)]
  /\ UNCHANGED atoms

\* the hash seeds of the runs
Seeds == 0..1

\* the selections tried: every atom, every atom but one, and the atoms of
\* one element
Selections(df) ==
  {DOMAIN df}
  \cup {DOMAIN df \ {i} : i \in DOMAIN df}
  \cup {{i \in DOMAIN df : df[i].species = SpeciesOf(e)} : e \in Elements}

\* some tag is carried by rows of different labels: only then does the
\* order of iteration show
ManyLabels(df) ==
  \E i \in DOMAIN df, j \in DOMAIN df :
    df[i].tags = df[j].tags /\ df[i].labels # df[j].labels

NextNmr ==
  \/ /\ last = Idle
     /\ \E symbs \in SymbolLists, reduce \in BOOLEAN :
          \E sym_tags \in (IF reduce THEN SymmetryTags(symbs)
                           ELSE {Arange(Len(symbs))}) :
            \E bmat \in {b \in BondMatrices(symbs) : Symmetric(b, sym_tags)},
               average_group \in SeqsUpTo(GroupPatterns, MaxPatterns) :
              NmrTag(symbs, bmat, reduce, sym_tags, average_group)
  \/ /\ last.op = "tag"
     /\ \E v \in DataSets : NmrTable(v)
  \/ /\ last.op = "table"
     /\ \E selection \in Selections(last.df),
           combine_rule \in {"mean", "first"}, seed \in Seeds :
          /\ (seed # 0 => last.aggregate /\ ManyLabels(last.df))
          /\ NmrAggregate(selection, combine_rule, seed)
  \/ Return

SpecNmr == Init /\ [][NextNmr]_vars

----------------------------------------------------------------------------
(* Properties.  In a state where last.op is "get" or "call", last.pre holds *)
(* the arrays of every structure before the evaluation and last.trs the     *)
(* trace of every structure after it.                                       *)

\* the parameters extract is called with by the evaluation l
ParamsOf(l) ==
  IF l.op = "call" THEN l.inst.params
  ELSE Updated(DefaultParams(l.cls), l.kwargs)

\* the three cache arrays as EFGDiagonal computes them from the array efg
FreshCache(efg) ==
  [n \in CacheNames |->
     [i \in 1..Len(efg) |->
        CASE n = EVALS -> Eigh(efg[i]).evals
          [] n = HSORT -> HaebSort(Eigh(efg[i]).evals)
          [] n = EVECS -> Eigh(efg[i]).evecs]]

OnOneStructure == last.op \in {"get", "call"} /\ last.inp.shape = "atoms"

CacheKept(before, tr) ==
  /\ tr.ndiag = 0
  /\ tr.writes \cap CacheNames = {}
  /\ \A n \in CacheNames :
       /\ Has(tr.arrays, n) <=> Has(before, n)
       /\ Has(before, n) => tr.arrays[n] = before[n]

CacheRewritten(cls, before, tr, value) ==
  /\ tr.ndiag >= 1
  /\ CacheNames \subseteq tr.writes
  /\ \A n \in CacheNames : tr.arrays[n] = FreshCache(before[EFG])[n]
  /\ cls \in ScalarCached =>
       value = NdArray([i \in 1..Len(before[EFG]) |->
                          Num(ScalarOf(cls, FreshCache(before[EFG])[HSORT][i]))])

CacheRule(cls, P, before, tr, status, value) ==
  /\ (~P.force_recalc /\ Has(before, HSORT)) => CacheKept(before, tr)
  /\ (status = "ok" /\ (P.force_recalc \/ ~Has(before, HSORT))) =>
       CacheRewritten(cls, before, tr, value)

\* C1: an evaluation of one of the nine cached classes on one structure with
\* force_recalc False, the structure holding efg_diagonal_evals_hsort, does no
\* diagonalisation and leaves the three cache arrays as they were; a
\* successful evaluation with force_recalc True, or on a structure without
\* that array, writes all three cache arrays from the structure's current efg
\* array, and the value returned is read from the rewritten arrays.
C1_CacheReuse ==
  (OnOneStructure /\ last.cls \in Cached) =>
    CacheRule(last.cls, ParamsOf(last), last.pre[last.inp.ids[1]],
              last.trs[last.inp.ids[1]], last.status, last.value)

\* a forced evaluation has replaced a cache older than the raw data
C1_Witness ==
  /\ OnOneStructure /\ last.cls \in Cached /\ last.status = "ok"
  /\ ParamsOf(last).force_recalc
  /\ Has(last.pre[last.inp.ids[1]], HSORT)
  /\ last.pre[last.inp.ids[1]][HSORT] #
       last.trs[last.inp.ids[1]].arrays[HSORT]

\* C2: a construction with a keyword that is no key of the class's
\* default_params raises ValueError, no structure having been supplied or
\* touched; with declared keywords only, the instance's params are the
\* declared defaults with exactly the given keys overridden.
C2_Construction ==
  last.op = "init" =>
    /\ atoms = last.pre
    /\ IF \E k \in DOMAIN last.kwargs : k \notin DOMAIN DefaultParams(last.cls)
       THEN last.status = "ValueError" /\ last.inst.status # "ok"
       ELSE /\ last.status = "ok"
            /\ DOMAIN last.inst.params = DOMAIN DefaultParams(last.cls)
            /\ \A k \in DOMAIN DefaultParams(last.cls) :
                 last.inst.params[k] =
                   IF k \in DOMAIN last.kwargs THEN last.kwargs[k]
                   ELSE DefaultParams(last.cls)[k]

\* a construction with an undeclared keyword has failed
C2_Witness ==
  /\ last.op = "init" /\ last.status = "ValueError"
  /\ last.kwargs = [save_array |-> FALSE] /\ last.cls = "EFGVzz"

\* C3: whichever of the thirteen classes is evaluated on a structure without
\* the array efg, the evaluation fails with RuntimeError, no array of that
\* structure has been read or written, and its arrays are as before.
C3_MissingEfg ==
  last.op \in {"get", "call"} =>
    \A s \in Structs :
      (last.trs[s].nextract > 0 /\ ~Has(last.pre[s], EFG)) =>
        /\ last.status = "RuntimeError"
        /\ last.trs[s].reads = {} /\ last.trs[s].writes = {}
        /\ last.trs[s].ndiag = 0
        /\ last.trs[s].arrays = last.pre[s]
        /\ atoms[s] = last.pre[s]

\* a cached class was evaluated on a structure that has lost its raw data but
\* still holds the cache
C3_Witness ==
  /\ OnOneStructure /\ last.cls \in Cached
  /\ ~Has(last.pre[last.inp.ids[1]], EFG)
  /\ Has(last.pre[last.inp.ids[1]], HSORT)
  /\ last.status = "RuntimeError"

\* cls.get(s, **kwargs) on the structure s alone, from the arrays before
Alone(cls, s, kwargs) == Get(cls, Trace(s, last.pre[s]), kwargs)

OnList == last.op = "get" /\ last.inp.shape = "list"
LastFrame == last.inp.ids[Len(last.inp.ids)]

Untouched(s) ==
  /\ last.trs[s].nextract = 0
  /\ last.trs[s].reads = {} /\ last.trs[s].writes = {}
  /\ last.trs[s].arrays = last.pre[s]
  /\ atoms[s] = last.pre[s]

\* C4: get on a non-empty list of frames without average returns what get on
\* the last frame alone returns (value, or error) under the same keywords,
\* and leaves the arrays of the last frame as get on it alone leaves them;
\* every structure that is not the last frame is not entered by extract, not
\* read and not written.
C4_LastFrameOnly ==
  (OnList /\ ~last.average /\ last.inp.ids # <<>>) =>
    /\ last.status = Alone(last.cls, LastFrame, last.kwargs).status
    /\ last.value = Alone(last.cls, LastFrame, last.kwargs).value
    /\ atoms[LastFrame] = Alone(last.cls, LastFrame, last.kwargs).tr.arrays
    /\ \A s \in Structs \ {LastFrame} : Untouched(s)

\* a cached class was evaluated on two different frames, neither of which
\* held a cache: the last one holds it now
C4_Witness ==
  /\ OnList /\ ~last.average /\ Len(last.inp.ids) = 2
  /\ last.inp.ids[1] # last.inp.ids[2]
  /\ last.cls \in Cached /\ last.status = "ok"
  /\ ~Has(last.pre[last.inp.ids[1]], HSORT)
  /\ Has(last.pre[last.inp.ids[1]], EFG)
  /\ Has(atoms[LastFrame], HSORT)

\* C5: an instance constructed with no overrides, called on a single
\* structure, a collection or a list of frames, returns the value that the
\* class-level get with no overrides returns on the same input.
C5_Uniform ==
  (last.op = "call" /\ last.kwargs = NoKw) =>
    LET g == ClassGet(last.cls, last.inp, Traces(last.pre), last.collPre,
                      FALSE, FALSE, NoKw)
    IN g.status = "ok" => (last.status = "ok" /\ last.value = g.value)

\* C6: a successful get on a collection returns one value per member, in
\* member order, each the value of get on that member alone under the same
\* keywords; the collection's named arrays are those before, with the
\* returned sequence under the default name exactly when store_array.
C6_CollectionMap ==
  (last.op = "get" /\ last.inp.shape = "collection" /\ last.status = "ok") =>
    /\ last.value.type = "list"
    /\ Len(last.value.items) = Len(last.inp.ids)
    /\ \A i \in 1..Len(last.inp.ids) :
         last.value.items[i] =
           Alone(last.cls, last.inp.ids[i], last.kwargs).value
    /\ last.coll = IF last.store_array
                   THEN SetArray(last.collPre, DefaultName(last.cls), last.value)
                   ELSE last.collPre

\* two different members with different values, stored over an older array
C6_Witness ==
  /\ last.op = "get" /\ last.inp.shape = "collection" /\ last.status = "ok"
  /\ Len(last.inp.ids) = 2 /\ last.value.items[1] # last.value.items[2]
  /\ last.store_array /\ Has(last.collPre, DefaultName(last.cls))
  /\ last.coll[DefaultName(last.cls)] = last.value

OnCollection == last.op \in {"get", "call"} /\ last.inp.shape = "collection"

\* the name of the instance constructed last: the given one, or the default
InstanceName == IF last.name # "" THEN last.name ELSE DefaultName(last.cls)

\* C7: on a collection, a successful instance call with store_array leaves
\* the collection's named arrays as before but for the result under the
\* instance's name (the name given at construction, the default name when
\* none was given); a successful get with store_array, as before but for the
\* result under the default name; without store_array the named arrays are
\* as before.
C7_StoreName ==
  (OnCollection /\ last.status = "ok") =>
    last.coll =
      IF ~last.store_array THEN last.collPre
      ELSE IF last.op = "call"
      THEN SetArray(last.collPre, InstanceName, last.value)
      ELSE SetArray(last.collPre, DefaultName(last.cls), last.value)

\* a named instance has stored its result and the array under the default
\* name is the old one
C7_Witness ==
  /\ OnCollection /\ last.op = "call" /\ last.status = "ok" /\ last.store_array
  /\ last.name = "my_name" /\ last.inp.ids # <<>>
  /\ Has(last.collPre, DefaultName(last.cls))
  /\ last.coll["my_name"] = last.value
  /\ last.coll[DefaultName(last.cls)] = Old

\* the result of get on frame f alone
FrameResult(f) == Alone(last.cls, last.inp.ids[f], last.kwargs)

\* a non-empty list whose first entry carries the attribute data
TensorLike(v) ==
  v.type = "list" /\ Len(v.items) > 0 /\ HasData(v.items[1])

Frames == 1..Len(last.inp.ids)

\* every frame was evaluated, as often as it occurs in the list
EveryFrameEvaluated ==
  \A s \in Structs :
    last.trs[s].nextract >= Cardinality({f \in Frames : last.inp.ids[f] = s})

\* C8: get with average on a non-empty list of frames each of whose results
\* is a non-empty list of objects with a data attribute evaluates every
\* frame and returns a list as long as the shortest per-frame result, whose
\* i-th entry is NMRTensor.average of the i-th entries of all frames in
\* frame order.
C8_TensorAverage ==
  (/\ OnList /\ last.average /\ last.inp.ids # <<>>
   /\ \A f \in Frames :
        FrameResult(f).status = "ok" /\ TensorLike(FrameResult(f).value)) =>
    /\ last.status = "ok"
    /\ EveryFrameEvaluated
    /\ last.value.type = "list"
    /\ Len(last.value.items) =
         MinOf({Len(FrameResult(f).value.items) : f \in Frames})
    /\ \A i \in 1..Len(last.value.items) :
         last.value.items[i] =
           TensorAverage([f \in Frames |-> FrameResult(f).value.items[i]])

\* frames with two sites and with one site were averaged: one site is left
C8_Witness ==
  /\ OnList /\ last.average /\ last.status = "ok"
  /\ Len(last.inp.ids) >= 2 /\ TensorLike(last.value)
  /\ Len(last.value.items) = 1
  /\ \E f \in Frames : Len(FrameResult(f).value.items) = 2

\* C9: get with average on a non-empty list of frames each of whose results
\* is a scalar or an array and not tensor-like evaluates every frame and
\* returns the elementwise mean of the per-frame results: their sum divided
\* by the number of frames.
C9_ArithmeticMean ==
  (/\ OnList /\ last.average /\ last.inp.ids # <<>>
   /\ \A f \in Frames :
        FrameResult(f).status = "ok" /\ ~TensorLike(FrameResult(f).value)) =>
    /\ last.status = "ok"
    /\ EveryFrameEvaluated
    /\ last.value = MeanOf([f \in Frames |-> FrameResult(f).value]).value

OnMembers == last.op = "get" /\ last.inp.shape \in {"collection", "list"}

NothingReturnedOrStored ==
  last.status # "ok" /\ last.value = <<>> /\ last.coll = last.collPre

\* the members get evaluates: all of them, but of a list without average
\* the last one only
EvaluatedMembers ==
  IF last.inp.shape = "list" /\ ~last.average
  THEN {Len(last.inp.ids)} \ {0} ELSE Frames

FirstFailing ==
  MinOf({f \in EvaluatedMembers : FrameResult(f).status # "ok"})

\* C10, as stated: if any member of the collection or any frame of the list,
\* with or without average, has no efg array, get fails and nothing is
\* stored on the collection.
C10_AnyMember ==
  (OnMembers /\ \E f \in Frames : ~Has(last.pre[last.inp.ids[f]], EFG)) =>
    NothingReturnedOrStored

\* C10, amended: if any member that get evaluates (every member of a
\* collection, every frame of a list with average, the last frame of a list
\* without average) has no efg array, get fails with the error of the first
\* evaluated member that fails alone (RuntimeError when the keywords are
\* those of extract), no value is returned and the named arrays of the
\* collection are as before.
C10_EvaluatedMember ==
  (/\ OnMembers
   /\ \E f \in EvaluatedMembers : ~Has(last.pre[last.inp.ids[f]], EFG)) =>
    /\ NothingReturnedOrStored
    /\ last.status = FrameResult(FirstFailing).status
    /\ DOMAIN ParamsOf(last) = Signature(last.cls) =>
         last.status = "RuntimeError"

\* the second member has no raw data; the first was evaluated, the stored
\* array is the old one
C10_Witness ==
  /\ OnMembers /\ last.inp.shape = "collection" /\ last.store_array
  /\ Len(last.inp.ids) = 2
  /\ Has(last.pre[last.inp.ids[1]], EFG)
  /\ ~Has(last.pre[last.inp.ids[2]], EFG)
  /\ last.trs[last.inp.ids[1]].nextract > 0
  /\ last.status = "RuntimeError"
  /\ Has(last.collPre, DefaultName(last.cls))
  /\ last.coll[DefaultName(last.cls)] = Old

----------------------------------------------------------------------------
(* Properties of the isotope-aware classes *)

OnIsotopes ==
  /\ last.op = "get" /\ last.inp.shape = "atoms" /\ last.cls \in IsotopeClasses
  /\ DOMAIN last.kwargs = {"use_q_isotopes", "isotopes", "isotope_list"}

Subject == last.inp.ids[1]
Elems == ChemicalSymbols(Subject)

\* the isotope_list fits the atoms
ListFits ==
  /\ last.kwargs.isotope_list.given
  /\ Len(last.kwargs.isotope_list.list) = Len(Elems)

\* the isotope of atom i by the precedence: list entry, element override,
\* quadrupole-active isotope, default
ByPrecedence(i, with_list) ==
  IF with_list /\ last.kwargs.isotope_list.list[i] # 0
  THEN last.kwargs.isotope_list.list[i]
  ELSE IF Elems[i] \in DOMAIN last.kwargs.isotopes
  THEN last.kwargs.isotopes[Elems[i]]
  ELSE IF last.kwargs.use_q_isotopes THEN QuadrupoleIsotope(Elems[i])
  ELSE DefaultIsotope(Elems[i])

\* C11: EFGTensor labels every atom with the isotope resolved by the
\* precedence: the atom's entry of a fitting isotope_list when it is not
\* None, else the entry of isotopes for its element, else the
\* quadrupole-active isotope when use_q_isotopes, else the default isotope.
C11_IsotopePrecedence ==
  (OnIsotopes /\ last.cls = "EFGTensor"
     /\ (ListFits \/ ~last.kwargs.isotope_list.given)) =>
    /\ last.status = "ok"
    /\ Len(last.value.items) = Len(Elems)
    /\ \A i \in 1..Len(Elems) :
         last.value.items[i].species =
           ToString(ByPrecedence(i, ListFits)) \o Elems[i]

\* isotopes = {H: 2} and a full list with None for the H atom: the atom is 2H
C11_Witness ==
  /\ OnIsotopes /\ last.cls = "EFGTensor" /\ ListFits /\ Subject = "s1"
  /\ last.kwargs.isotopes = [e \in {"H"} |-> 2]
  /\ ~last.kwargs.use_q_isotopes
  /\ last.kwargs.isotope_list.list = <<0, 15>>
  /\ last.value.items[1].species = "2H"
  /\ last.value.items[2].species = "15N"

\* the same keywords with isotope_list=None
WithoutList == [last.kwargs EXCEPT !.isotope_list = NoIsotopeList]

\* C12: in the four isotope-aware classes an isotope_list whose length is
\* not the number of atoms does not fail the evaluation: the warning is
\* printed and the value is that of the same evaluation with
\* isotope_list=None.
C12_ListMismatch ==
  (OnIsotopes /\ last.kwargs.isotope_list.given /\ ~ListFits) =>
    /\ last.status = "ok"
    /\ last.trs[Subject].nwarn >= 1
    /\ last.value = Alone(last.cls, Subject, WithoutList).value

\* a list one entry too long, naming another isotope for the first atom, was
\* ignored by EFGQuadrupolarConstant
C12_Witness ==
  /\ OnIsotopes /\ last.cls = "EFGQuadrupolarConstant" /\ Subject = "s2"
  /\ last.kwargs.isotope_list = [given |-> TRUE, list |-> <<10, 0>>]
  /\ last.kwargs.isotopes = NoIsotopes
  /\ last.status = "ok" /\ last.trs[Subject].nwarn = 1
  /\ last.value.items[1] =
       Num(RMulInt(Plain(Alone("EFGVzz", Subject, NoKw).value.items[1]),
                   IsotopeData(11, "B").Q))

----------------------------------------------------------------------------
(* Properties of the derived scalars.  After a successful evaluation of a   *)
(* cached class the structure holds the arrays the value was read from.     *)

OnScalar(cls) == OnOneStructure /\ last.cls = cls /\ last.status = "ok"

\* the Haeberlen-sorted triple and the ascending eigenvalues of atom i
Triple(i) == atoms[Subject][HSORT][i]
Ascending(i) == atoms[Subject][EVALS][i]
Atoms == 1..Len(atoms[Subject][HSORT])

\* 3 (h[k] - iso) of the triple h
Deviation(h, k) == 3 * h[k] - Sum3(h)

VzzIsLast(i) ==
  /\ last.value.items[i] = Num(RInt(Triple(i)[3]))
  /\ Pick3(Triple(i), ArgSort3(Triple(i))) = Ascending(i)

\* C13, as stated: EFGVzz returns for every atom the last element of its
\* Haeberlen-sorted triple, which is the eigenvalue of largest absolute
\* value among the atom's three eigenvalues.
C13_VzzLargestAbs ==
  OnScalar("EFGVzz") =>
    \A i \in Atoms :
      /\ VzzIsLast(i)
      /\ \A k \in 1..3 : Abs(Ascending(i)[k]) <= Abs(Triple(i)[3])

\* C13, amended: EFGVzz returns for every atom the last element of its
\* Haeberlen-sorted triple, which is the eigenvalue farthest from the mean
\* of the atom's three eigenvalues; for a traceless tensor it is the
\* eigenvalue of largest absolute value.
C13_VzzFarthest ==
  OnScalar("EFGVzz") =>
    \A i \in Atoms :
      /\ VzzIsLast(i)
      /\ \A k \in 1..3 :
           Abs(Deviation(Triple(i), k)) <= Abs(Deviation(Triple(i), 3))
      /\ Sum3(Triple(i)) = 0 =>
           \A k \in 1..3 : Abs(Ascending(i)[k]) <= Abs(Triple(i)[3])

\* Vzz of a traceless tensor whose largest eigenvalue is not the one of
\* largest absolute value
C13_Witness ==
  /\ OnScalar("EFGVzz") /\ Subject = "s2"
  /\ Ascending(1) = <<-4, 1, 3>>
  /\ last.value.items[1] = Num(RInt(-4))

\* the isotope data of atom i as resolved for the evaluation in hand
Resolved(i) == IsotopeData(ByPrecedence(i, ListFits), Elems[i])

\* C14: EFGQuadrupolarConstant returns for every atom i, in units of the
\* conversion constant, Q[i] * Vzz[i], Q[i] the quadrupole moment of the
\* isotope resolved for the atom and Vzz[i] what EFGVzz returns for it; it
\* is exactly 0 for every atom whose isotope has Q = 0, every spin-1/2
\* nucleus among them.
C14_QuadrupolarConstant ==
  (OnIsotopes /\ last.cls = "EFGQuadrupolarConstant") =>
    /\ last.status = "ok"
    /\ Len(last.value.items) = Len(Elems)
    /\ \A i \in 1..Len(Elems) :
         /\ last.value.items[i] =
              Num(RMulInt(RInt(Triple(i)[3]), Resolved(i).Q))
         /\ (Resolved(i).Q = 0 \/ Resolved(i).I2 = 1) =>
              last.value.items[i] = Zero

\* 1H has spin 1/2 and constant 0; 14N beside it has a constant that is not 0
C14_Witness ==
  /\ OnIsotopes /\ last.cls = "EFGQuadrupolarConstant" /\ Subject = "s1"
  /\ Resolved(1).I2 = 1 /\ Triple(1)[3] # 0 /\ last.value.items[1] = Zero
  /\ Resolved(2).I2 = 2 /\ last.value.items[2] # Zero

\* the non-negative m, as 2m, in {-I, -I + 1, ..., I - 1}
Starts(I2) == {m2 \in 0..(I2 - 2) : (m2 + I2) % 2 = 0}

\* C15: EFGNQR returns one mapping per atom in atom order; for an atom of
\* spin I > 1/2 its keys are exactly the transitions m -> m+1 of the
\* non-negative m in {-I, ..., I-1}: I - 1/2 of them for half-integer I and
\* I for integer I, none starting at m = I; for I <= 1/2 it is empty.
C15_NQRKeys ==
  (OnIsotopes /\ last.cls = "EFGNQR") =>
    /\ last.status = "ok"
    /\ last.value.type = "list"
    /\ Len(last.value.items) = Len(Elems)
    /\ \A i \in 1..Len(Elems) :
         IF Resolved(i).I2 > 1
         THEN /\ DOMAIN last.value.items[i] =
                   {TransitionKey(m2) : m2 \in Starts(Resolved(i).I2)}
              /\ Cardinality(DOMAIN last.value.items[i]) =
                   (IF Resolved(i).I2 % 2 = 1 THEN Resolved(i).I2 - 1
                    ELSE Resolved(i).I2) \div 2
              /\ TransitionKey(Resolved(i).I2) \notin
                   DOMAIN last.value.items[i]
         ELSE DOMAIN last.value.items[i] = {}

\* 10B has spin 3 and three transitions
C15_Witness ==
  /\ OnIsotopes /\ last.cls = "EFGNQR" /\ Subject = "s2"
  /\ Resolved(1).I2 = 6
  /\ Cardinality(DOMAIN last.value.items[1]) = 3

\* atom i has spin 3/2 and asymmetry 0
ThreeHalvesAxial(i) ==
  Resolved(i).I2 = 3 /\ Asymmetry(Triple(i)) = <<0, 1>>

\* C16: for an atom of spin 3/2, quadrupole moment Q, asymmetry 0 and Vzz V,
\* EFGNQR yields exactly one transition, with the key "m=1/2->3/2" and the
\* frequency 3 * A * 2, A = k Q V / (4 * 1.5 * 2): half the atom's
\* quadrupolar constant (in units of k, Q V / 2).
C16_ThreeHalves ==
  (OnIsotopes /\ last.cls = "EFGNQR" /\ last.status = "ok") =>
    \A i \in 1..Len(Elems) :
      ThreeHalvesAxial(i) =>
        /\ Cardinality(DOMAIN last.value.items[i]) = 1
        /\ \A k \in DOMAIN last.value.items[i] :
             last.value.items[i][k] =
               Num(Rat(Resolved(i).Q * Triple(i)[3], 2))
        /\ DOMAIN last.value.items[i] = {"m=1/2->3/2"}

\* the asymmetry returned for atom i, as the rational <<n, d>> with d > 0
Eta(i) == Coef(last.value.items[i], Unit)

\* C17: for every atom whose anisotropy is not 0, the asymmetry EFGAsymmetry
\* returns from the cached Haeberlen-sorted triple lies in [0, 1].
C17_AsymmetryRange ==
  OnScalar("EFGAsymmetry") =>
    \A i \in Atoms :
      Deviation(Triple(i), 3) # 0 =>
        /\ DOMAIN last.value.items[i] \subseteq {Unit}
        /\ 0 <= Eta(i)[1] /\ Eta(i)[1] <= Eta(i)[2]

\* one atom with asymmetry 1/3 and one with asymmetry 1
C17_Witness ==
  /\ OnScalar("EFGAsymmetry") /\ Subject = "s1"
  /\ Triple(1) = <<-2, -1, 3>> /\ Eta(1) = <<1, 3>>
  /\ Triple(2) = <<-2, 0, 2>> /\ Eta(2) = <<1, 1>>

\* C18, as stated: for every atom the asymmetry EFGAsymmetry returns is 0
\* exactly when the atom's anisotropy is 0.
C18_ZeroIffIsotropic ==
  OnScalar("EFGAsymmetry") =>
    \A i \in Atoms :
      (last.value.items[i] = Zero) <=> (Deviation(Triple(i), 3) = 0)

\* C18, amended: an anisotropy of 0 gives the asymmetry 0; the asymmetry is
\* 0 exactly when the xx and yy of the Haeberlen-sorted triple are equal,
\* which also atoms of nonzero anisotropy (axially symmetric tensors) have.
C18_ZeroIffAxial ==
  OnScalar("EFGAsymmetry") =>
    \A i \in Atoms :
      /\ Deviation(Triple(i), 3) = 0 => last.value.items[i] = Zero
      /\ (last.value.items[i] = Zero) <=> (Triple(i)[1] = Triple(i)[2])

\* an axially symmetric tensor: anisotropy not 0, asymmetry 0
C18_Witness ==
  /\ OnScalar("EFGAsymmetry") /\ Subject = "s2"
  /\ Triple(1) = <<1, 1, -2>> /\ last.value.items[1] = Zero

----------------------------------------------------------------------------
(* The table of nmr().  In a state where last.op is "aggregate",            *)
(* last.selected holds the rows of the selected atoms and last.df the       *)
(* table after the aggregation step.                                        *)

OnAggregated == last.op = "aggregate"

\* the rows of the output that carry the tag
RowsOf(tag) == {k \in DOMAIN last.df : last.df[k].tags = tag}

\* the selected atoms that carry the tag
SelectedWith(tag) == {i \in DOMAIN last.selected : last.selected[i].tags = tag}

RECURSIVE TotalMultiplicity(_, _)
TotalMultiplicity(df, k) ==
  IF k > Len(df) THEN 0 ELSE df[k].multiplicity + TotalMultiplicity(df, k + 1)

\* C19: the aggregation step partitions the selected atoms by tag: the
\* output has exactly one row for each distinct tag among the selected
\* atoms, every selected atom contributes to exactly one row, the
\* multiplicity of a row is the number of selected atoms carrying its tag,
\* and the multiplicities sum to the number of selected atoms.
C19_PartitionByTag ==
  OnAggregated =>
    /\ Len(last.df) =
         Cardinality({last.selected[i].tags : i \in DOMAIN last.selected})
    /\ \A i \in DOMAIN last.selected :
         Cardinality(RowsOf(last.selected[i].tags)) = 1
    /\ \A k \in DOMAIN last.df :
         /\ SelectedWith(last.df[k].tags) # {}
         /\ last.df[k].multiplicity =
              Cardinality(SelectedWith(last.df[k].tags))
    /\ TotalMultiplicity(last.df, 1) = Len(last.selected)

\* C19 witness: three selected atoms aggregated into two rows, one of them
\* of multiplicity 2
C19_Witness ==
  /\ OnAggregated
  /\ last.aggregate
  /\ Len(last.selected) = 3
  /\ Len(last.df) = 2
  /\ \E k \in DOMAIN last.df : last.df[k].multiplicity = 2

(* In a state where last.op is "tag", last.symmetry holds the tags before   *)
(* the functional groups were tagged, last.XHn_groups the groups found and  *)
(* last.tags the tags set on the structure.                                 *)

OnTagged == last.op = "tag" /\ last.status = "ok"

\* the (pattern index, group index) pairs of the groups found
GroupIds ==
  UNION {{<<ipat, ig>> : ig \in DOMAIN last.XHn_groups[ipat]} :
           ipat \in DOMAIN last.XHn_groups}

\* the atoms of the group
GroupAtoms(g) ==
  {last.XHn_groups[g[1]][g[2]][k] : k \in DOMAIN last.XHn_groups[g[1]][g[2]]}

\* the tag synthesized for the group
GroupTag(g) == SynthTag(g[1] - 1, g[2] - 1)

OneTagEach ==
  \A g \in GroupIds :
    \A a \in GroupAtoms(g), b \in GroupAtoms(g) :
      last.tags[a] = last.tags[b] /\ last.tags[a] < 0

DistinctGroupTags ==
  \A g \in GroupIds, h \in GroupIds : g # h => GroupTag(g) # GroupTag(h)

ApartFromSymmetry ==
  /\ \A g \in GroupIds : GroupTag(g) < 0
  /\ \A a \in DOMAIN last.tags :
       (\A g \in GroupIds : a \notin GroupAtoms(g)) =>
         /\ last.tags[a] = last.symmetry[a]
         /\ \A g \in GroupIds : last.tags[a] # GroupTag(g)

\* C20: after the functional groups are tagged, all atoms of one group found
\* carry one identical tag that replaces their symmetry tag, the tags of
\* different (pattern index, group index) pairs differ, and every
\* synthesized tag is negative and so differs from the symmetry tag of
\* every atom outside the groups.
C20_GroupTags ==
  OnTagged => OneTagEach /\ DistinctGroupTags /\ ApartFromSymmetry

(* In a state where last.op is "table", last.tags holds the tags of the     *)
(* atoms and last.quat the quaternions the Euler angle columns are made of. *)

OnTable == last.op = "table"

\* the positions that carry the tag of position i, ascending
Sharing(i) == Sorted({j \in DOMAIN last.tags : last.tags[j] = last.tags[i]})

\* the quaternions of the atoms as EFGQuaternion.get returned them
Original == QuaternionData(Len(last.tags))

\* C21: average_quaternions_by_tags returns a list as long as its input;
\* the positions of a tag that occurs more than once all hold the circular
\* average of the original quaternions at exactly those positions, and a
\* position whose tag occurs once holds its original quaternion; the table
\* that is aggregated later is built from this list.
C21_QuaternionAverage ==
  OnTable =>
    /\ Len(last.quat) = Len(last.tags)
    /\ \A i \in DOMAIN last.tags :
         last.quat[i] =
           IF Len(Sharing(i)) > 1
           THEN average_quaternions(
                  [k \in DOMAIN Sharing(i) |-> Original[Sharing(i)[k]]])
           ELSE Original[i]

\* C21 witness: a table where two atoms share a tag and hold the average of
\* their two quaternions, and another atom is alone with its tag
C21_Witness ==
  /\ OnTable
  /\ \E i \in DOMAIN last.tags, j \in DOMAIN last.tags :
       /\ Sharing(i) = <<i, j>>
       /\ last.quat[i] = average_quaternions(<<Original[i], Original[j]>>)
       /\ last.quat[j] = last.quat[i]
  /\ \E i \in DOMAIN last.tags : Sharing(i) = <<i>> /\ last.quat[i] = Original[i]

\* the distinct values of the column in the member rows of the output row k,
\* sorted and comma-joined
SortedSet(col, k) ==
  Join(Comma,
       SortedStrings({last.selected[i][col] :
                        i \in SelectedWith(last.df[k].tags)}))

\* C22: after the aggregation the labels cell of every output row is the set
\* of the distinct labels of the member rows, sorted and comma-joined, and
\* so is the MagresView_labels cell when the table has that column.
C22_SortedLabels ==
  (OnAggregated /\ last.aggregate) =>
    \A k \in DOMAIN last.df :
      /\ last.df[k].labels = SortedSet("labels", k)
      /\ "MagresView_labels" \in Range(last.columns) =>
           last.df[k].MagresView_labels = SortedSet("MagresView_labels", k)

\* the selected rows carry tags that are all different
OneRowEachTag ==
  \A i \in DOMAIN last.selected, j \in DOMAIN last.selected :
    last.selected[i].tags = last.selected[j].tags => i = j

\* C23: the aggregation with combine rule 'first' of a table that has
\* exactly one row for each tag leaves the table as it was: the same
\* columns and the same cells, multiplicity and labels among them.
C23_FirstIdempotent ==
  (OnAggregated /\ last.aggregate /\ last.combine_rule = "first"
     /\ OneRowEachTag) =>
    /\ last.columns = last.columns_before
    /\ last.df = last.selected

\* the numeric columns get_efg_summary derives
DerivedColumns == {"EFG_Vzz", "EFG_asymmetry"}

\* the sum of the column over the selected rows with the tag
RECURSIVE SelectedSum(_, _, _)
SelectedSum(col, tag, i) ==
  IF i > Len(last.selected) THEN <<0, 1>>
  ELSE RAdd(IF last.selected[i].tags = tag THEN last.selected[i][col]
            ELSE <<0, 1>>,
            SelectedSum(col, tag, i + 1))

\* the column of the table, as a sequence
Column(df, col) == [i \in DOMAIN df |-> df[i][col]]

\* C24: with combine rule 'mean' every numeric derived column of an output
\* row holds the arithmetic mean of the column over the rows with the tag of
\* the row; four atoms tagged in two pairs with asymmetry 0.1, 0.1, 0.3, 0.3
\* and Vzz 10, 10, 5, 5 give two rows, asymmetry 0.1 and Vzz 10, asymmetry
\* 0.3 and Vzz 5, each of multiplicity 2.
C24_MeanRule ==
  (OnAggregated /\ last.aggregate /\ last.combine_rule = "mean") =>
    /\ \A k \in DOMAIN last.df, col \in DerivedColumns :
         RMulInt(last.df[k][col],
                 Cardinality(SelectedWith(last.df[k].tags))) =
           SelectedSum(col, last.df[k].tags, 1)
    /\ ( /\ Len(last.selected) = 4
         /\ last.selected[1].tags = last.selected[2].tags
         /\ last.selected[3].tags = last.selected[4].tags
         /\ last.selected[1].tags < last.selected[3].tags
         /\ Column(last.selected, "EFG_asymmetry") =
              <<Rat(1, 10), Rat(1, 10), Rat(3, 10), Rat(3, 10)>>
         /\ Column(last.selected, "EFG_Vzz") =
              <<<<10, 1>>, <<10, 1>>, <<5, 1>>, <<5, 1>>>> )
       => /\ Column(last.df, "EFG_asymmetry") = <<Rat(1, 10), Rat(3, 10)>>
          /\ Column(last.df, "EFG_Vzz") = <<<<10, 1>>, <<5, 1>>>>
          /\ Column(last.df, "multiplicity") = <<2, 2>>

\* C24 witness: the four atoms of the example, aggregated with 'mean' into
\* two rows
C24_Witness ==
  /\ OnAggregated /\ last.aggregate /\ last.combine_rule = "mean"
  /\ Column(last.selected, "tags") = <<0, 0, 2, 2>>
  /\ Column(last.selected, "EFG_asymmetry") =
       <<Rat(1, 10), Rat(1, 10), Rat(3, 10), Rat(3, 10)>>
  /\ Column(last.selected, "EFG_Vzz") = <<<<10, 1>>, <<10, 1>>, <<5, 1>>, <<5, 1>>>>
  /\ Column(last.df, "tags") = <<0, 2>>
  /\ Column(last.df, "EFG_Vzz") = <<<<10, 1>>, <<5, 1>>>>
  /\ Column(last.df, "multiplicity") = <<2, 2>>

(* find_XHn_groups, seen from a state where last.op is "tag": last.symbs,   *)
(* last.bmat, last.symmetry and last.average_group are what it was called   *)
(* with.                                                                    *)

\* the X atoms that pattern k matches, in the order of the loop
Matched(k) ==
  XIndices(last.symbs, last.bmat, last.average_group[k].X,
           last.average_group[k].n)

\* the candidate group of the X atom
CandidateOf(xind) == GroupOf(last.bmat, HIndices(last.symbs), xind)

\* the candidate of a later X atom of the pattern carries the tags of the
\* candidate of an earlier one, and other members
SecondMatch(k) ==
  \E a \in DOMAIN Matched(k), b \in DOMAIN Matched(k) :
    /\ a < b
    /\ TagsOf(last.symmetry, CandidateOf(Matched(k)[a])) =
         TagsOf(last.symmetry, CandidateOf(Matched(k)[b]))
    /\ Range(CandidateOf(Matched(k)[a])) # Range(CandidateOf(Matched(k)[b]))

\* C25: a candidate group that matches a recorded group of its pattern with
\* other members is a fatal error: find_XHn_groups raises ValueError and
\* returns no groups, it neither merges nor drops the candidate.
C25_AmbiguousFatal ==
  (last.op = "tag" /\ \E k \in DOMAIN last.average_group : SecondMatch(k)) =>
    last.status = "ValueError" /\ last.XHn_groups = <<>>

\* the atoms of group ig of pattern k
AtomsIn(k, ig) == Range(last.XHn_groups[k][ig])

\* C26: every group find_XHn_groups returns for a pattern XHn holds atom
\* indices, each of an H atom bonded to an X atom that the pattern matches,
\* and the tags and labels nmr() overwrites are those of these H atoms, in
\* whatever order the atoms of the structure come.
C26_GroupsOfHAtoms ==
  OnTagged =>
    /\ \A k \in DOMAIN last.XHn_groups :
         \A ig \in DOMAIN last.XHn_groups[k] :
           \A a \in AtomsIn(k, ig) :
             /\ last.symbs[a] = "H"
             /\ \E x \in Range(Matched(k)) : Bonded(last.bmat, x, a)
    /\ \A a \in DOMAIN last.symbs :
         (last.tags[a] # last.symmetry[a]
            \/ last.labels[a] # FileLabels(last.symbs)[a]) =>
           last.symbs[a] = "H"

\* C30: in find_XHn_groups the tag tuples recorded for a pattern are
\* pairwise distinct, so a candidate group matches at most one of them and
\* the search never fails with 'Found multiple matches'.
C30_SingleMatch ==
  last.op = "tag" =>
    /\ \A k \in DOMAIN last.seen_tags :
         \A a \in DOMAIN last.seen_tags[k], b \in DOMAIN last.seen_tags[k] :
           last.seen_tags[k][a] = last.seen_tags[k][b] => a = b
    /\ last.matches <= 1
    /\ last.status = "ok"

\* C30 witness: a candidate matched the one recorded tag tuple of its
\* pattern and joined the group, which then holds two candidates
C30_Witness ==
  /\ last.op = "tag"
  /\ last.status = "ok"
  /\ last.matches = 1
  /\ \E k \in DOMAIN last.seen_tags :
       /\ Len(last.seen_tags[k]) = 1
       /\ Len(last.XHn_groups[k][1]) = 2 * last.average_group[k].n
\* the efg_diagonal_evals_hsort array of the structure is the one computed
\* from the efg array it holds now
Coherent(arrays) ==
  (Has(arrays, HSORT) /\ Has(arrays, EFG)) =>
     arrays[HSORT] = FreshCache(arrays[EFG])[HSORT]

\* what EFGVzz.get returns when it reads the sorted eigenvalues hsort
VzzOf(hsort) ==
  NdArray([i \in 1..Len(hsort) |-> Num(ScalarOf("EFGVzz", hsort[i]))])

OnVzzDefault ==
  /\ OnOneStructure /\ last.op = "get" /\ last.cls = "EFGVzz"
  /\ last.kwargs = NoKw /\ last.status = "ok"

\* C27 (as stated): whatever EFG property calls and replacements of the raw
\* efg array came before, efg_diagonal_evals_hsort, when present, holds the
\* Haeberlen-sorted eigenvalues of the structure's current efg array, and
\* EFGVzz.get with default parameters returns the Vzz of the current tensors.
C27_CacheCoherent ==
  /\ \A s \in Structs : Coherent(atoms[s])
  /\ OnVzzDefault =>
       last.value = VzzOf(FreshCache(last.pre[last.inp.ids[1]][EFG])[HSORT])

\* C27 (amended): efg_diagonal_evals_hsort, when present, holds the
\* Haeberlen-sorted eigenvalues of one of the efg arrays the structure has
\* held; an EFGVzz.get with default parameters on a structure that holds the
\* array leaves it as it was and returns its last column, whether or not the
\* efg array has been replaced since; a successful evaluation with
\* force_recalc True leaves the array computed from the current efg array.
C27_CacheOfLastComputation ==
  /\ \A s \in Structs :
       Has(atoms[s], HSORT) =>
         \E v \in {1, 2} : atoms[s][HSORT] = FreshCache(EfgData(s, v))[HSORT]
  /\ (OnVzzDefault /\ Has(last.pre[last.inp.ids[1]], HSORT)) =>
       /\ atoms[last.inp.ids[1]][HSORT] = last.pre[last.inp.ids[1]][HSORT]
       /\ last.value = VzzOf(last.pre[last.inp.ids[1]][HSORT])
  /\ (OnOneStructure /\ last.cls \in Cached /\ last.status = "ok"
        /\ ParamsOf(last).force_recalc) =>
       Coherent(atoms[last.inp.ids[1]])

\* EFGVzz.get with default parameters has answered from an array older than
\* the raw data: the array and the value returned are not those of the
\* current efg array
C27_Witness ==
  /\ OnVzzDefault
  /\ Has(atoms[last.inp.ids[1]], EFG) /\ ~Coherent(atoms[last.inp.ids[1]])
  /\ last.value #
       VzzOf(FreshCache(atoms[last.inp.ids[1]][EFG])[HSORT])
\* the keywords of the operation hold a key that is no key of the class's
\* default_params
Undeclared(l) ==
  \E k \in DOMAIN l.kwargs : k \notin DOMAIN DefaultParams(l.cls)

\* C28 (as stated): a key that is not among the class's declared defaults is
\* rejected with ValueError at construction and at the class-level get (here
\* on one structure that holds the array efg), and the class's extract is
\* never called with it.
C28_RejectedEverywhere ==
  /\ (last.op = "init" /\ Undeclared(last)) => last.status = "ValueError"
  /\ (OnOneStructure /\ last.op = "get" /\ Undeclared(last)
        /\ Has(last.pre[last.inp.ids[1]], EFG)) =>
       /\ last.status = "ValueError"
       /\ last.trs[last.inp.ids[1]].nextract = 0

\* C28 (amended): at construction an undeclared key raises ValueError; the
\* class-level get does not validate its keywords: on one structure it calls
\* the class's decorated extract with the undeclared key among the
\* parameters, which raises RuntimeError when the structure has no efg array
\* and TypeError otherwise, before any array is read or written.
C28_RejectedAtConstruction ==
  /\ (last.op = "init" /\ Undeclared(last)) =>
        last.status = "ValueError" /\ atoms = last.pre
  /\ (last.op = "get" /\ Undeclared(last)) =>
        /\ last.status # "ValueError"
        /\ atoms = last.pre
        /\ \A s \in Structs :
             last.trs[s].reads = {} /\ last.trs[s].writes = {}
  /\ (OnOneStructure /\ last.op = "get" /\ Undeclared(last)) =>
        /\ last.trs[last.inp.ids[1]].nextract = 1
        /\ last.status = IF Has(last.pre[last.inp.ids[1]], EFG)
                         THEN "TypeError" ELSE "RuntimeError"

\* EFGVzz.get(s, save_array=False) on a structure with the array efg has
\* failed with TypeError inside the call of extract
C28_Witness ==
  /\ OnOneStructure /\ last.op = "get" /\ last.cls = "EFGVzz"
  /\ last.kwargs = [save_array |-> FALSE]
  /\ last.status = "TypeError"
  /\ last.trs[last.inp.ids[1]].nextract = 1
----------------------------------------------------------------------------
(* The parameter dictionaries as objects: the default_params dict of each   *)
(* class, the params dict of each instance and the dicts they hold as       *)
(* values.  A dict is named by its identity, objects gives its content; the *)
(* state of this part is kept in last.                                      *)

ParamClasses == {"EFGVzz", "EFGQuadrupolarConstant"}
MaxInstances == 2

\* identities: the default_params dict of a class, the dict made by the
\* literal {} for isotopes in the class body, the params dict of the i-th
\* instance made, and a dict the caller made
ClassDict(cls) == [dict |-> "default_params", of |-> cls]
DictOf(cls) == [dict |-> "isotopes", of |-> cls]
InstDict(i) == [dict |-> "params", of |-> i]
CallerDict == [dict |-> "caller", of |-> ""]
Dicts ==
  {ClassDict(cls) : cls \in ParamClasses}
    \cup {DictOf(cls) : cls \in ParamClasses \cap IsotopeCached}
    \cup {CallerDict}

\* default_params as the class body declares it; the value of isotopes is
\* the one dict object the literal made
DeclaredParams(cls) ==
  [k \in DOMAIN DefaultParams(cls) |->
     IF k = "isotopes" THEN DictOf(cls) ELSE DefaultParams(cls)[k]]

\* obj with the dict id (new or not) holding content
Store(obj, id, content) ==
  [d \in DOMAIN obj \cup {id} |-> IF d = id THEN content ELSE obj[d]]

\* the objects after the classes are defined
Loaded ==
  [op |-> "load", cls |-> "", kwargs |-> NoKw, status |-> "ok",
   objects |-> [d \in Dicts |->
                  CASE d.dict = "default_params" -> DeclaredParams(d.of)
                    [] d.dict = "isotopes" -> NoIsotopes
                    [] d.dict = "caller" -> [e \in {"H"} |-> 2]],
   before |-> <<>>, instances |-> <<>>, used |-> NoKw, self |-> 0,
   inplace |-> FALSE]

\* a constructor that keeps the class's dict as the instance's params:
\* self.params = self.default_params
Params_init_NoCopy(h, cls, params) ==
  IF \E p \in DOMAIN params : p \notin DOMAIN h.objects[ClassDict(cls)]
  THEN [h EXCEPT !.status = "ValueError"]
  ELSE [h EXCEPT !.status = "ok",
                 !.objects = Store(@, ClassDict(cls),
                                   Updated(h.objects[ClassDict(cls)], params)),
                 !.instances = Append(@, [cls |-> cls, params |-> ClassDict(cls)])]

\* "self.params = dict(self.default_params)", a new dict, then the keys of
\* params are checked and set in it
Params_init(h, cls, params) ==
  IF \E p \in DOMAIN params : p \notin DOMAIN h.objects[ClassDict(cls)]
  THEN [h EXCEPT !.status = "ValueError"]
  ELSE [h EXCEPT !.status = "ok",
                 !.objects = Store(@, InstDict(Len(h.instances) + 1),
                                   Updated(h.objects[ClassDict(cls)], params)),
                 !.instances =
                    Append(@, [cls |-> cls,
                               params |-> InstDict(Len(h.instances) + 1)])]

\* "params = dict(self.default_params); params.update(kwargs)": used is the
\* content of the new dict, handed to extract as keywords
Params_get(h, cls, kwargs) ==
  [h EXCEPT !.status = "ok",
            !.used = Updated(h.objects[ClassDict(cls)], kwargs)]

\* "self.extract(s, **self.params)"
Params_call(h, i) ==
  [h EXCEPT !.status = "ok", !.used = h.objects[h.instances[i].params]]

\* the caller's p.params[k] = v
Params_setitem(h, i, k, v) ==
  [h EXCEPT !.status = "ok",
            !.objects = Store(@, h.instances[i].params,
                              Updated(h.objects[h.instances[i].params],
                                      [x \in {k} |-> v]))]

\* the caller's p.params['isotopes'][elem] = mass
Params_setisotope(h, i, elem, mass) ==
  [h EXCEPT !.status = "ok", !.inplace = TRUE,
            !.objects = Store(@, h.objects[h.instances[i].params].isotopes,
                              Updated(h.objects[h.objects[h.instances[i].params].isotopes],
                                      [x \in {elem} |-> mass]))]

ParamOps == {"load", "init", "get", "call", "setitem", "setisotope"}

ParamKeywords ==
  {NoKw, [force_recalc |-> TRUE], [isotopes |-> CallerDict],
   [save_array |-> FALSE]}

\* the record of the operation op of class cls, h the objects after it
ParamsDone(h, op, cls, kwargs, i) ==
  [h EXCEPT !.op = op, !.cls = cls, !.kwargs = kwargs, !.self = i,
            !.before = last.objects]

ParamsLoad ==
  /\ last = Idle
  /\ last' = Loaded
  /\ UNCHANGED atoms

\* p = cls(**params)
ParamsConstruct(cls, params) ==
  /\ Len(last.instances) < MaxInstances
  /\ last' = ParamsDone(Params_init(last, cls, params), "init", cls, params, 0)
  /\ UNCHANGED atoms

\* cls.get(s, **kwargs) up to the call of extract
ParamsGet(cls, kwargs) ==
  /\ last' = ParamsDone(Params_get(last, cls, kwargs), "get", cls, kwargs, 0)
  /\ UNCHANGED atoms

\* p(s) up to the call of extract, p the i-th instance
ParamsCall(i) ==
  /\ last' = ParamsDone(Params_call(last, i), "call", last.instances[i].cls,
                        NoKw, i)
  /\ UNCHANGED atoms

ParamsSetItem(i, kw) ==
  /\ DOMAIN kw \subseteq DOMAIN last.objects[last.instances[i].params]
  /\ \E k \in DOMAIN kw :
       last' = ParamsDone(Params_setitem(last, i, k, kw[k]), "setitem",
                          last.instances[i].cls, kw, i)
  /\ UNCHANGED atoms

ParamsSetIsotope(i, mass) ==
  /\ "isotopes" \in DOMAIN last.objects[last.instances[i].params]
  /\ last' = ParamsDone(Params_setisotope(last, i, "H", mass), "setisotope",
                        last.instances[i].cls, NoKw, i)
  /\ UNCHANGED atoms

NextParams ==
  \/ ParamsLoad
  \/ /\ last.op \in ParamOps
     /\ \E cls \in ParamClasses, params \in ParamKeywords :
          ParamsConstruct(cls, params)
  \/ /\ last.op \in ParamOps
     /\ \E cls \in ParamClasses, kwargs \in ParamKeywords :
          /\ DOMAIN kwargs \subseteq DOMAIN DefaultParams(cls)
          /\ ParamsGet(cls, kwargs)
  \/ /\ last.op \in ParamOps
     /\ \E i \in 1..Len(last.instances) : ParamsCall(i)
  \/ /\ last.op \in ParamOps
     /\ \E i \in 1..Len(last.instances),
           kw \in {[force_recalc |-> TRUE], [force_recalc |-> FALSE],
                   [isotopes |-> CallerDict]} :
          ParamsSetItem(i, kw)
  \/ /\ last.op \in ParamOps
     /\ \E i \in 1..Len(last.instances), mass \in {1, 2} :
          ParamsSetIsotope(i, mass)

SpecParams == Init /\ [][NextParams]_vars

\* the params dict of instance j holds what it held before the operation
SameParams(j) ==
  last.objects[last.instances[j].params] =
    last.before[last.instances[j].params]

====
